---- MODULE Spec2Model ----
(***************************************************************************)
(* A model of the login / credential / session orchestration of the       *)
(* repository: CredentialManager (src/src/security/credential_manager.py), *)
(* SessionStorage (src/src/core/session_manager.py) and                    *)
(* YouTubeLoginHandler (src/src/automation/login_handler.py), and of the   *)
(* stealth layer: AdvancedStealthEngine and ContextRotator                 *)
(* (src/src/security/fingerprint_spoofing.py).                             *)
(*                                                                         *)
(* Optional values (Python's None) are sets of at most one element:        *)
(* None is {} and Some(x) is {x}.  The outcome of a call that may raise    *)
(* is a record [st, raised, val].  What the operator types at a prompt     *)
(* and what the browser driver answers are inputs, drawn with \E.          *)
(***************************************************************************)
EXTENDS Integers, Sequences, FiniteSets, TLC

None == {}
Some(x) == {x}
Elem(s) == CHOOSE x \in s : TRUE
Opt(S) == {None} \cup {Some(x) : x \in S}

VARIABLES
    \* CredentialManager: the object (master_password, _cipher), its two files,
    \* the process environment, and the last call with its arguments and result
    cm, environ, cmOp, cmArgs, cmRet,
    \* SessionStorage: the object and its directory, time.time(), the number of
    \* clock steps taken, and the last call with its argument and result
    ss, clock, ticks, ssOp, ssArg, ssRet,
    \* YouTubeLoginHandler.login: the position of the call, its strategy, the
    \* hybrid loop's index, the running stage and its result, the value login
    \* returned, the events so far, the selector probes of the last step, the
    \* profile's last_session.json and the manual-login page
    pc, strategy, stageIdx, stage, stageResult, ret, trace, probes,
    last_session_file, manual_page,
    \* AdvancedStealthEngine and ContextRotator: the two objects, the number of
    \* get_next_context calls since construction, and the last call with its
    \* result
    eng, rot, rotCalls, rotOp, rotRet,
    \* BrowserManager: the object, its profile directory on disk, real time,
    \* the real time of the last start of the machine, and the last call
    \* with its argument and result
    bm, disk, wall, boot, bmOp, bmArg, bmRet,
    \* The programs: the last run with its inputs, and what it did
    runIn, runOut,
    \* YouTubeAutomator: the object, and the last call with the outcomes it
    \* met and its result
    au, auOp, auArg, auRet,
    \* SessionManager: the object with its storage, heap, clock and page, what
    \* its store was last told to save under each id, and the last call
    \* with its arguments and result
    sm, smSaved, smOp, smArg, smRet

credVars == <<cm, environ, cmOp, cmArgs, cmRet>>
sessVars == <<ss, clock, ticks, ssOp, ssArg, ssRet>>
loginVars == <<pc, strategy, stageIdx, stage, stageResult, ret, trace, probes,
               last_session_file, manual_page>>
rotVars == <<eng, rot, rotCalls, rotOp, rotRet>>
browserVars == <<bm, disk, wall, boot, bmOp, bmArg, bmRet>>
runVars == <<runIn, runOut>>
autoVars == <<au, auOp, auArg, auRet>>
smVars == <<sm, smSaved, smOp, smArg, smRet>>
lateVars == <<autoVars, smVars>>
moreVars == <<rotVars, browserVars, runVars, lateVars>>
vars == <<credVars, sessVars, loginVars, moreVars>>

\* What an action of one component leaves alone.
credFrame == <<sessVars, loginVars, moreVars>>
sessFrame == <<credVars, loginVars, moreVars>>
loginFrame == <<environ, cmOp, cmArgs, cmRet, sessVars, moreVars>>
rotFrame == <<credVars, sessVars, loginVars, browserVars, runVars, lateVars>>
browserFrame == <<credVars, sessVars, loginVars, rotVars, runVars, lateVars>>
runFrame == <<credVars, sessVars, loginVars, rotVars, browserVars, lateVars>>
earlyVars == <<credVars, sessVars, loginVars, rotVars, browserVars, runVars>>
autoFrame == <<earlyVars, smVars>>
smFrame == <<earlyVars, autoVars>>

(***************************************************************************)
(* Bounds of the model.                                                    *)
(***************************************************************************)
NumMasterPws == 2
NumSalts == 2

MasterPws == 1..NumMasterPws
Salts == 1..NumSalts
Emails == {"a@x", "b@x"}
Passwords == {"pw1", "pw2"}

(***************************************************************************)
(* CredentialManager                                                       *)
(***************************************************************************)

NoJson == [has_keys |-> FALSE, youtube_email |-> "", youtube_password |-> ""]
CredJson(e, p) == [has_keys |-> TRUE, youtube_email |-> e, youtube_password |-> p]

\* PBKDF2-HMAC-SHA256 of (password, salt): distinct pairs give distinct keys.
_generate_key(password, salt) == <<password, salt>>

\* A Fernet token: authenticated ciphertext of `plain` under `key`.
FernetEncrypt(key, plain) == [valid |-> TRUE, key |-> key, plain |-> plain]
\* Bytes that are no Fernet token at all.
GarbledBytes == [valid |-> FALSE, key |-> <<0, 0>>, plain |-> NoJson]
\* Fernet.decrypt raises InvalidToken unless the token was made under `key`.
FernetDecryptOk(key, token) == token.valid /\ token.key = key

Out(st, raised, val) == [st |-> st, raised |-> raised, val |-> val]
\* `except Exception as e: ... return val`
Catch(r, val) == IF r.raised THEN Out(r.st, FALSE, val) ELSE r

\* CredentialManager.__init__
NewCredentialManager(master_password, st) ==
    [st EXCEPT !.master_password = master_password, !._cipher = None]

\* gp: what getpass returns for the master password (None: it raises);
\* urandom: the fresh salt os.urandom would give.
_get_cipher(st, gp, urandom) ==
    IF st._cipher # None THEN Out(st, FALSE, st._cipher)
    ELSE IF st.master_password = None /\ gp = None THEN Out(st, TRUE, None)
    ELSE LET st1 == IF st.master_password = None
                    THEN [st EXCEPT !.master_password = gp] ELSE st
             salt == IF st1.salt_file # None THEN st1.salt_file ELSE Some(urandom)
             st2 == [st1 EXCEPT !.salt_file = salt]
             key == _generate_key(Elem(st2.master_password), Elem(salt))
             st3 == [st2 EXCEPT !._cipher = Some(key)]
         IN Out(st3, FALSE, st3._cipher)

\* The module `os` has no attribute `time`: evaluating os.time() raises
\* AttributeError.
OsHasTime == FALSE

\* The body of store_credentials' try block.
store_credentials_try(st, youtube_email, youtube_password, gp, urandom) ==
    IF ~OsHasTime THEN Out(st, TRUE, FALSE)
    ELSE LET c == _get_cipher(st, gp, urandom)
         IN IF c.raised THEN Out(c.st, TRUE, FALSE)
            ELSE LET encrypted_data ==
                         FernetEncrypt(Elem(c.val),
                                       CredJson(youtube_email, youtube_password))
                 IN Out([c.st EXCEPT !.credentials_file = Some(encrypted_data)],
                        FALSE, TRUE)

\* `except Exception: return False`
store_credentials(st, youtube_email, youtube_password, gp, urandom) ==
    Catch(store_credentials_try(st, youtube_email, youtube_password, gp, urandom), FALSE)

\* The body of load_credentials' try block: _get_cipher, Fernet.decrypt
\* (InvalidToken) and credentials["youtube_email"] (KeyError) may raise.
load_credentials_try(st, gp, urandom) ==
    IF st.credentials_file = None THEN Out(st, FALSE, None)
    ELSE LET c == _get_cipher(st, gp, urandom)
             encrypted_data == Elem(st.credentials_file)
         IN IF c.raised THEN Out(c.st, TRUE, None)
            ELSE IF ~FernetDecryptOk(Elem(c.val), encrypted_data)
                 THEN Out(c.st, TRUE, None)
            ELSE LET credentials == encrypted_data.plain
                 IN IF ~credentials.has_keys THEN Out(c.st, TRUE, None)
                    ELSE Out(c.st, FALSE,
                             Some([email |-> credentials.youtube_email,
                                   password |-> credentials.youtube_password]))

\* Faulty variant: load_credentials without its except clause.
load_credentials_uncaught(st, gp, urandom) == load_credentials_try(st, gp, urandom)

\* `except Exception: return None`
load_credentials(st, gp, urandom) ==
    Catch(load_credentials_try(st, gp, urandom), None)

\* str.lower() and str.strip() on the answers the operator can type.
Lower(s) == IF s = "S" THEN "s" ELSE s
Strip(s) == IF s = " " THEN "" ELSE IF s = " a@x" THEN "a@x" ELSE s

ChangeInputs == {"S", "n"}
EmailInputs == {" ", " a@x"}

\* One script of operator answers; None means the prompt raises (EOFError),
\* and stands for "never asked" at a prompt the code does not reach.
\* master1 answers the master-password prompt of the first load_credentials of
\* a call, master2 the master-password prompts after it; urandom is the salt
\* os.urandom gives when no salt file exists.
AskScripts ==
    {[email |-> e, password |-> None, confirm |-> None] : e \in Opt(EmailInputs)}
    \cup {[email |-> Some(e), password |-> Some(""), confirm |-> None] :
            e \in {x \in EmailInputs : Strip(x) # ""}}
    \cup {[email |-> Some(e), password |-> Some(p), confirm |-> c] :
            e \in {x \in EmailInputs : Strip(x) # ""},
            p \in Passwords, c \in Opt(Passwords)}

NeedsMasterPrompt(st) == st.master_password = None /\ st._cipher = None

\* The answers that can matter: no master-password prompt is shown once the
\* password is known, and os.urandom is not called once a salt file exists.
MasterAnswers(st) == IF NeedsMasterPrompt(st) THEN Opt(MasterPws) ELSE {None}
FreshSalts(st) == IF st.salt_file = None THEN Salts ELSE st.salt_file

\* The "change?" prompt is shown only when credentials were loaded, and the
\* three prompts after it only when it was not shown or was answered "s".
NeverAsked == [email |-> None, password |-> None, confirm |-> None]
ChangeScripts(st) ==
    {[change |-> None, ask |-> a] : a \in AskScripts}
    \cup IF st.credentials_file = None THEN {}
         ELSE UNION {{[change |-> Some(c), ask |-> a] :
                         a \in IF Lower(c) = "s" THEN AskScripts ELSE {NeverAsked}} :
                     c \in ChangeInputs}

PromptInputs(st) ==
    UNION {
        {[master1 |-> m1, master2 |-> m2, change |-> c.change, email |-> c.ask.email,
          password |-> c.ask.password, confirm |-> c.ask.confirm, urandom |-> u] :
            m2 \in IF m1 = None THEN MasterAnswers(st) ELSE {None},
            c \in ChangeScripts(st),
            u \in FreshSalts(st)} :
        m1 \in IF NeedsMasterPrompt(st) /\ st.credentials_file # None
               THEN Opt(MasterPws) ELSE {None}}

AskNewCredentials(st, gp, inp) ==
    IF inp.email = None THEN Out(st, TRUE, FALSE)
    ELSE LET email == Strip(Elem(inp.email))
         IN IF email = "" THEN Out(st, FALSE, FALSE)
            ELSE IF inp.password = None THEN Out(st, TRUE, FALSE)
            ELSE LET password == Elem(inp.password)
                 IN IF password = "" THEN Out(st, FALSE, FALSE)
                    ELSE IF inp.confirm = None THEN Out(st, TRUE, FALSE)
                    ELSE IF password # Elem(inp.confirm) THEN Out(st, FALSE, FALSE)
                    ELSE store_credentials(st, email, password, gp, inp.urandom)

setup_credentials_interactively(st, gp, inp) ==
    LET existing_creds == load_credentials(st, gp, inp.urandom)
    IN IF existing_creds.val # None
       THEN IF inp.change = None THEN Out(existing_creds.st, TRUE, FALSE)
            ELSE IF Lower(Elem(inp.change)) # "s"
                 THEN Out(existing_creds.st, FALSE, TRUE)
            ELSE AskNewCredentials(existing_creds.st, gp, inp)
       ELSE AskNewCredentials(existing_creds.st, gp, inp)

Truthy(v) == v # None /\ v # Some("")

get_credentials_from_env(env) ==
    IF Truthy(env.YOUTUBE_EMAIL) /\ Truthy(env.YOUTUBE_PASSWORD)
    THEN Some([email |-> Elem(env.YOUTUBE_EMAIL),
               password |-> Elem(env.YOUTUBE_PASSWORD)])
    ELSE None

\* val is [creds, consulted]: the value returned and the sources consulted,
\* in the order the code consulted them, each with whether it yielded a value.
Src(src, got) == [src |-> src, got |-> got]

\* Faulty variant: the environment is consulted before the encrypted store.
get_credentials_env_first(st, env, inp) ==
    LET fromEnv == get_credentials_from_env(env)
        first == load_credentials(st, inp.master1, inp.urandom)
    IN IF fromEnv # None
       THEN Out(st, FALSE, [creds |-> fromEnv, consulted |-> <<Src("env", TRUE)>>])
       ELSE Out(first.st, FALSE,
                [creds |-> first.val,
                 consulted |-> <<Src("env", FALSE), Src("store", first.val # None)>>])

get_credentials(st, env, inp) ==
    LET first == load_credentials(st, inp.master1, inp.urandom)
    IN IF first.val # None
       THEN Out(first.st, FALSE,
                [creds |-> first.val, consulted |-> <<Src("store", TRUE)>>])
       ELSE LET fromEnv == get_credentials_from_env(env)
            IN IF fromEnv # None
               THEN Out(first.st, FALSE,
                        [creds |-> fromEnv,
                         consulted |-> <<Src("store", FALSE), Src("env", TRUE)>>])
               ELSE LET setup == setup_credentials_interactively(
                                     first.st, inp.master2, inp)
                        consulted(got) ==
                            <<Src("store", FALSE), Src("env", FALSE),
                              Src("prompt", got)>>
                    IN IF setup.raised
                       THEN Out(setup.st, TRUE,
                                [creds |-> None, consulted |-> consulted(FALSE)])
                       ELSE IF setup.val
                       THEN LET again == load_credentials(
                                             setup.st, inp.master2, inp.urandom)
                            IN Out(again.st, FALSE,
                                   [creds |-> again.val,
                                    consulted |-> consulted(TRUE)])
                       ELSE Out(setup.st, FALSE,
                                [creds |-> None, consulted |-> consulted(FALSE)])

remove_credentials(st) ==
    Out([st EXCEPT !.credentials_file = None, !.salt_file = None], FALSE, TRUE)

(***************************************************************************)
(* The credential manager as a state machine: one action per public        *)
(* method.  cmOp, cmArgs and cmRet record the last call, its arguments and *)
(* what it returned.                                                       *)
(***************************************************************************)
NoArgs == [email |-> "", password |-> ""]
CmRet(raised, ok, creds, consulted) ==
    [raised |-> raised, ok |-> ok, creds |-> creds, consulted |-> consulted]

\* Files an earlier run or the operator may have left behind.
PriorCredentialFiles ==
    {None, Some(GarbledBytes)}
    \cup {Some(FernetEncrypt(_generate_key(p, s), j)) :
            p \in MasterPws, s \in Salts, j \in {CredJson("b@x", "pw2")}}
    \cup {Some(FernetEncrypt(_generate_key(1, 1), NoJson))}

EnvValues ==
    {[YOUTUBE_EMAIL |-> None, YOUTUBE_PASSWORD |-> None],
     [YOUTUBE_EMAIL |-> Some("env@x"), YOUTUBE_PASSWORD |-> Some("envpw")],
     [YOUTUBE_EMAIL |-> Some("env@x"), YOUTUBE_PASSWORD |-> Some("")],
     [YOUTUBE_EMAIL |-> None, YOUTUBE_PASSWORD |-> Some("envpw")]}

CredInit ==
    /\ cm \in [master_password : Opt(MasterPws), _cipher : {None},
               credentials_file : PriorCredentialFiles, salt_file : Opt(Salts)]
    /\ environ \in EnvValues
    /\ cmOp = "init"
    /\ cmArgs = NoArgs
    /\ cmRet = CmRet(FALSE, FALSE, None, <<>>)

Construct ==
    /\ UNCHANGED credFrame
    /\ \E mp \in Opt(MasterPws) :
           /\ cm' = NewCredentialManager(mp, cm)
           /\ cmOp' = "init"
           /\ cmArgs' = NoArgs
           /\ cmRet' = CmRet(FALSE, FALSE, None, <<>>)
           /\ UNCHANGED environ

StoreCredentials ==
    /\ UNCHANGED credFrame
    /\ \E e \in Emails, p \in Passwords, gp \in MasterAnswers(cm), u \in FreshSalts(cm) :
           LET r == store_credentials(cm, e, p, gp, u)
           IN /\ cm' = r.st
              /\ cmOp' = "store_credentials"
              /\ cmArgs' = [email |-> e, password |-> p]
              /\ cmRet' = CmRet(r.raised, r.val, None, <<>>)
              /\ UNCHANGED environ

LoadCredentials ==
    /\ UNCHANGED credFrame
    /\ \E gp \in MasterAnswers(cm), u \in FreshSalts(cm) :
           LET r == load_credentials(cm, gp, u)
           IN /\ cm' = r.st
              /\ cmOp' = "load_credentials"
              /\ cmArgs' = NoArgs
              /\ cmRet' = CmRet(r.raised, r.val # None, r.val, <<>>)
              /\ UNCHANGED environ

SetupCredentialsInteractively ==
    /\ UNCHANGED credFrame
    /\ \E inp \in PromptInputs(cm) :
           LET r == setup_credentials_interactively(cm, inp.master1, inp)
           IN /\ cm' = r.st
              /\ cmOp' = "setup_credentials_interactively"
              /\ cmArgs' = NoArgs
              /\ cmRet' = CmRet(r.raised, r.val, None, <<>>)
              /\ UNCHANGED environ

GetCredentials ==
    /\ UNCHANGED credFrame
    /\ \E inp \in PromptInputs(cm) :
           LET r == get_credentials(cm, environ, inp)
           IN /\ cm' = r.st
              /\ cmOp' = "get_credentials"
              /\ cmArgs' = NoArgs
              /\ cmRet' = CmRet(r.raised, r.val.creds # None, r.val.creds, r.val.consulted)
              /\ UNCHANGED environ

RemoveCredentials ==
    /\ UNCHANGED credFrame
    /\ LET r == remove_credentials(cm)
       IN /\ cm' = r.st
          /\ cmOp' = "remove_credentials"
          /\ cmArgs' = NoArgs
          /\ cmRet' = CmRet(r.raised, r.val, None, <<>>)
          /\ UNCHANGED environ

\* The credential manager left alone, in a specification of another component.
CredIdle ==
    /\ cm = [master_password |-> None, _cipher |-> None,
             credentials_file |-> None, salt_file |-> None]
    /\ environ = [YOUTUBE_EMAIL |-> None, YOUTUBE_PASSWORD |-> None]
    /\ cmOp = "init"
    /\ cmArgs = NoArgs
    /\ cmRet = CmRet(FALSE, FALSE, None, <<>>)

CredNext ==
    \/ Construct
    \/ StoreCredentials
    \/ LoadCredentials
    \/ SetupCredentialsInteractively
    \/ GetCredentials
    \/ RemoveCredentials


(***************************************************************************)
(* SessionStorage                                                          *)
(***************************************************************************)

NumKeys == 2
MaxTicks == 2

Keys == 1..NumKeys
SessionIds == {"s1", "s2"}
\* What a save is called with: the cookie list and the two storage snapshots
\* (None, or a dict).
Payloads ==
    {[cookies |-> "[]", local_storage |-> None, session_storage |-> None],
     [cookies |-> "[sid=1]", local_storage |-> Some("{k:v}"),
      session_storage |-> Some("{}")]}

\* load_session_data: age_hours = (time.time() - timestamp) / 3600, expired
\* when age_hours > 168.
SecondsPerHour == 3600
MaxAgeHours == 168
\* The steps time.time() advances by between two calls, in seconds.
TickSteps == {1, MaxAgeHours * SecondsPerHour}

\* Fernet(key) raises ValueError unless key is 32 url-safe base64 bytes;
\* 0 stands for a key file holding other bytes.
ValidKey(k) == k \in Keys

\* `x or {}`
OrEmptyDict(x) == IF x = None THEN "{}" ELSE Elem(x)

NoSessionData ==
    [cookies |-> "[]", local_storage |-> "{}", session_storage |-> "{}",
     timestamp |-> 0, version |-> "1.0"]

\* SessionStorage._get_or_create_key; generated: what Fernet.generate_key gives.
_get_or_create_key(st, generated) ==
    IF st.key_file # None
    THEN [st EXCEPT !._encryption_key = Elem(st.key_file)]
    ELSE [st EXCEPT !.key_file = Some(generated), !._encryption_key = generated]

\* The body of save_session_data's try block: Fernet(key) may raise.
save_session_data_try(st, now, session_id, cookies, local_storage, session_storage) ==
    LET session_data ==
            [cookies |-> cookies,
             local_storage |-> OrEmptyDict(local_storage),
             session_storage |-> OrEmptyDict(session_storage),
             timestamp |-> now, version |-> "1.0"]
    IN IF ~ValidKey(st._encryption_key) THEN Out(st, TRUE, FALSE)
       ELSE Out([st EXCEPT !.files[session_id] =
                     Some(FernetEncrypt(st._encryption_key, session_data))],
                FALSE, TRUE)

\* `except Exception: return False`
save_session_data(st, now, session_id, cookies, local_storage, session_storage) ==
    Catch(save_session_data_try(st, now, session_id, cookies, local_storage,
                                session_storage), FALSE)

\* Faulty variant: a record of exactly the maximum age counts as expired.
ExpiredAtLimit(now, timestamp) ==
    (now - timestamp) >= MaxAgeHours * SecondsPerHour

Expired(now, timestamp) ==
    \* (now - timestamp) / 3600 > 168 over the reals
    (now - timestamp) > MaxAgeHours * SecondsPerHour

\* The body of load_session_data's try block: Fernet(key) (ValueError) and
\* Fernet.decrypt (InvalidToken) may raise.
load_session_data_try(st, now, session_id) ==
    IF st.files[session_id] = None THEN Out(st, FALSE, None)
    ELSE LET encrypted == Elem(st.files[session_id])
         IN IF ~ValidKey(st._encryption_key) THEN Out(st, TRUE, None)
            ELSE IF ~FernetDecryptOk(st._encryption_key, encrypted)
                 THEN Out(st, TRUE, None)
            ELSE LET session_data == encrypted.plain
                 IN IF Expired(now, session_data.timestamp)
                    THEN Out(st, FALSE, None)
                    ELSE Out(st, FALSE, Some(session_data))

\* Faulty variant: load_session_data without its except clause.
load_session_data_uncaught(st, now, session_id) ==
    load_session_data_try(st, now, session_id)

\* `except Exception: return None`
load_session_data(st, now, session_id) ==
    Catch(load_session_data_try(st, now, session_id), None)

delete_session(st, session_id) ==
    IF st.files[session_id] # None
    THEN Out([st EXCEPT !.files[session_id] = None], FALSE, TRUE)
    ELSE Out(st, FALSE, FALSE)

SsRet(raised, ok, data) == [raised |-> raised, ok |-> ok, data |-> data]

\* SessionStorage.__init__ over an empty directory, at key k.
FreshSessionStorage(k) ==
    [_encryption_key |-> k, key_file |-> Some(k),
     files |-> [i \in SessionIds |-> None]]

SessInit ==
    /\ ss \in {FreshSessionStorage(k) : k \in Keys}
    /\ clock = 0
    /\ ticks = 0
    /\ ssOp = "init"
    /\ ssArg = "s1"
    /\ ssRet = SsRet(FALSE, FALSE, None)

\* A later run constructs SessionStorage over the same directory.
NewSessionStorage ==
    /\ UNCHANGED sessFrame
    /\ \E k \in Keys :
           /\ ss' = _get_or_create_key(ss, k)
           /\ ssOp' = "init"
           /\ ssArg' = "s1"
           /\ ssRet' = SsRet(FALSE, FALSE, None)
           /\ UNCHANGED <<clock, ticks>>

\* The key file is removed or overwritten outside the program.
KeyFileReplaced ==
    /\ UNCHANGED sessFrame
    /\ \E f \in {None} \cup {Some(k) : k \in 0..NumKeys} :
           /\ f # ss.key_file
           /\ ss' = [ss EXCEPT !.key_file = f]
           /\ ssOp' = "key_file_replaced"
           /\ ssArg' = "s1"
           /\ ssRet' = SsRet(FALSE, FALSE, None)
           /\ UNCHANGED <<clock, ticks>>

SaveSessionData ==
    /\ UNCHANGED sessFrame
    /\ \E i \in SessionIds, p \in Payloads :
           LET r == save_session_data(ss, clock, i, p.cookies, p.local_storage,
                                      p.session_storage)
           IN /\ ss' = r.st
              /\ ssOp' = "save_session_data"
              /\ ssArg' = i
              /\ ssRet' = SsRet(r.raised, r.val, None)
              /\ UNCHANGED <<clock, ticks>>

LoadSessionData ==
    /\ UNCHANGED sessFrame
    /\ \E i \in SessionIds :
           LET r == load_session_data(ss, clock, i)
           IN /\ ss' = r.st
              /\ ssOp' = "load_session_data"
              /\ ssArg' = i
              /\ ssRet' = SsRet(r.raised, r.val # None, r.val)
              /\ UNCHANGED <<clock, ticks>>

DeleteSession ==
    /\ UNCHANGED sessFrame
    /\ \E i \in SessionIds :
           LET r == delete_session(ss, i)
           IN /\ ss' = r.st
              /\ ssOp' = "delete_session"
              /\ ssArg' = i
              /\ ssRet' = SsRet(r.raised, r.val, None)
              /\ UNCHANGED <<clock, ticks>>

Tick ==
    /\ UNCHANGED sessFrame
    /\ \E d \in TickSteps :
           /\ ticks < MaxTicks
           /\ clock' = clock + d
           /\ ticks' = ticks + 1
           /\ ssOp' = "tick"
           /\ ssArg' = "s1"
           /\ ssRet' = SsRet(FALSE, FALSE, None)
           /\ UNCHANGED ss

\* The session store left alone, in a specification of another component.
SessIdle ==
    /\ ss = FreshSessionStorage(1)
    /\ clock = 0
    /\ ticks = 0
    /\ ssOp = "init"
    /\ ssArg = "s1"
    /\ ssRet = SsRet(FALSE, FALSE, None)

SessNext ==
    \/ NewSessionStorage
    \/ KeyFileReplaced
    \/ SaveSessionData
    \/ LoadSessionData
    \/ DeleteSession
    \/ Tick


(***************************************************************************)
(* YouTubeLoginHandler                                                     *)
(*                                                                         *)
(* pc is the position of the one login call; trace is the sequence of      *)
(* events of that call; probes holds the selector probes of the last step. *)
(***************************************************************************)

\* LoginStrategy and LoginResult
Strategies == {"SESSION_RESTORE", "AUTOMATIC_LOGIN", "MANUAL_ASSISTED", "HYBRID_APPROACH"}
LoginResults ==
    {"SUCCESS", "FAILED", "REQUIRES_2FA", "ACCOUNT_LOCKED", "CAPTCHA_REQUIRED",
     "MANUAL_INTERVENTION"}

\* Faulty variant: the automatic login listed before the session check.
HybridStrategiesSwapped == <<"AUTOMATIC_LOGIN", "SESSION_RESTORE", "MANUAL_ASSISTED">>

\* The strategies list of _hybrid_login_approach, in its order.
HybridStrategies == <<"SESSION_RESTORE", "AUTOMATIC_LOGIN", "MANUAL_ASSISTED">>

\* The lengths of the selector lists.
NumEmailSelectors == 4
NumPasswordSelectors == 3
NumNextSelectors == 5
NumLoginSelectors == 6
NumCaptchaIndicators == 5
NumErrorIndicators == 6
NumSuccessIndicators == 5
NumLoginIndicators == 6
NumSigninButtons == 3

Ev(ev, a, b) == [ev |-> ev, a |-> a, b |-> b]

\* What page.find answers for one candidate: an element, None, or it raises.
FindOutcomes == {"elem", "none", "raise"}

\* The answers of page.find to the n candidates of one list.  The script
\* resolves at candidate k (never, for k = 0); the candidates before k miss by
\* returning None, by raising, or alternately; those after k would resolve
\* too, and are never asked.
FindScripts(n) ==
    {[i \in 1..n |->
        IF i = k THEN "elem"
        ELSE IF k # 0 /\ i > k THEN "elem"
        ELSE IF m = "mixed" THEN (IF i % 2 = 1 THEN "none" ELSE "raise")
        ELSE m] : k \in 0..n, m \in {"none", "raise", "mixed"}}

\* The probing loop shared by every selector list:
\*   for selector in selectors:
\*       try:    element = await page.find(selector); if element: break / return
\*       except: continue
\* Faulty variant: the loop without its try/except, so that a candidate whose
\* lookup raises ends the probe instead of being skipped.
RECURSIVE ProbeFromUncaught(_, _, _)
ProbeFromUncaught(outcomes, i, tried) ==
    IF i > Len(outcomes) THEN [found |-> 0, tried |-> tried]
    ELSE IF outcomes[i] = "elem" THEN [found |-> i, tried |-> Append(tried, i)]
    ELSE IF outcomes[i] = "raise" THEN [found |-> 0, tried |-> Append(tried, i)]
    ELSE ProbeFromUncaught(outcomes, i + 1, Append(tried, i))

RECURSIVE ProbeFrom(_, _, _)
ProbeFrom(outcomes, i, tried) ==
    IF i > Len(outcomes) THEN [found |-> 0, tried |-> tried]
    ELSE IF outcomes[i] = "elem" THEN [found |-> i, tried |-> Append(tried, i)]
    ELSE ProbeFrom(outcomes, i + 1, Append(tried, i))

Probe(what, outcomes) ==
    LET r == ProbeFrom(outcomes, 1, <<>>)
    IN [what |-> what, answers |-> outcomes, found |-> r.found,
        tried |-> r.tried]

Res(val, prs, evs) == [val |-> val, probes |-> prs, events |-> evs]

_is_logged_in(indicators, buttons) ==
    LET p1 == Probe("login_indicators", indicators)
        p2 == Probe("signin_buttons", buttons)
    IN IF p1.found > 0
       THEN Res(TRUE, <<p1>>, <<Ev("find", "login_indicators", "")>>)
       ELSE Res(FALSE, <<p1, p2>>,
                <<Ev("find", "login_indicators", ""), Ev("find", "signin_buttons", "")>>)

IsLoggedInOutcomes ==
    {_is_logged_in(o1, o2) :
        o1 \in FindScripts(NumLoginIndicators), o2 \in FindScripts(NumSigninButtons)}

_find_next_button(outcomes) == Probe("next_selectors", outcomes)
_find_login_button(outcomes) == Probe("login_selectors", outcomes)
_detect_captcha(outcomes) == Probe("captcha_indicators", outcomes)

\* human_click / human_typing answer "ok" or "raise".
ActOutcomes == {"ok", "raise"}

_fill_email_field(fields, click, typing, nexts, clickNext) ==
    LET p1 == Probe("email_selectors", fields)
        p2 == _find_next_button(nexts)
        e1 == <<Ev("find", "email_selectors", "")>>
        e2 == e1 \o <<Ev("click", "email_field", "")>>
        e3 == e2 \o <<Ev("type", "email", "")>>
        e4 == e3 \o <<Ev("find", "next_selectors", "")>>
        e5 == e4 \o <<Ev("click", "next_button", "")>>
    IN IF p1.found = 0 THEN Res("FAILED", <<p1>>, e1)
       ELSE IF click = "raise" THEN Res("FAILED", <<p1>>, e2)
       ELSE IF typing = "raise" THEN Res("FAILED", <<p1>>, e3)
       ELSE IF p2.found = 0 THEN Res("SUCCESS", <<p1, p2>>, e4)
       ELSE IF clickNext = "raise" THEN Res("FAILED", <<p1, p2>>, e5)
       ELSE Res("SUCCESS", <<p1, p2>>, e5)

FillEmailOutcomes ==
    {_fill_email_field(f, c, t, n, cn) :
        f \in FindScripts(NumEmailSelectors), c \in ActOutcomes, t \in ActOutcomes,
        n \in FindScripts(NumNextSelectors), cn \in ActOutcomes}

_fill_password_field(fields, captchas, click, typing, buttons, clickLogin) ==
    LET p1 == Probe("password_selectors", fields)
        pc1 == _detect_captcha(captchas)
        p2 == _find_login_button(buttons)
        e1 == <<Ev("find", "password_selectors", "")>>
        ec == e1 \o <<Ev("find", "captcha_indicators", "")>>
        e2 == e1 \o <<Ev("click", "password_field", "")>>
        e3 == e2 \o <<Ev("type", "password", "")>>
        e4 == e3 \o <<Ev("find", "login_selectors", "")>>
        e5 == e4 \o <<Ev("click", "login_button", "")>>
    IN IF p1.found = 0
       THEN IF pc1.found > 0
            THEN Res("CAPTCHA_REQUIRED", <<p1, pc1>>,
                     ec \o <<Ev("captcha_detected", "", "")>>)
            ELSE Res("FAILED", <<p1, pc1>>, ec)
       ELSE IF click = "raise" THEN Res("FAILED", <<p1>>, e2)
       ELSE IF typing = "raise" THEN Res("FAILED", <<p1>>, e3)
       ELSE IF p2.found = 0 THEN Res("SUCCESS", <<p1, p2>>, e4)
       ELSE IF clickLogin = "raise" THEN Res("FAILED", <<p1, p2>>, e5)
       ELSE Res("SUCCESS", <<p1, p2>>, e5)

FillPasswordOutcomes ==
    {_fill_password_field(f, k, c, t, b, cl) :
        f \in FindScripts(NumPasswordSelectors),
        k \in FindScripts(NumCaptchaIndicators),
        c \in ActOutcomes, t \in ActOutcomes,
        b \in FindScripts(NumLoginSelectors), cl \in ActOutcomes}

\* url: what reading page.url gives: a success URL ("match"), another URL,
\* or it raises.
UrlOutcomes == {"match", "other", "raise"}

\* val is "true", "false" or "raise".
_check_login_success(errors, successes, url) ==
    LET p1 == Probe("error_indicators", errors)
        p2 == Probe("success_indicators", successes)
        e1 == <<Ev("find", "error_indicators", "")>>
        e2 == e1 \o <<Ev("find", "success_indicators", "")>>
        e3 == e2 \o <<Ev("read", "page.url", "")>>
    IN IF p1.found > 0 THEN Res("false", <<p1>>, e1)
       ELSE IF p2.found > 0 THEN Res("true", <<p1, p2>>, e2)
       ELSE IF url = "raise" THEN Res("raise", <<p1, p2>>, e3)
       ELSE IF url = "match" THEN Res("true", <<p1, p2>>, e3)
       ELSE Res("false", <<p1, p2>>, e3)

CheckLoginSuccessOutcomes ==
    {_check_login_success(e, s, u) :
        e \in FindScripts(NumErrorIndicators),
        s \in FindScripts(NumSuccessIndicators), u \in UrlOutcomes}

\* BrowserManager.restore_session: False when last_session.json is missing or
\* older than the horizon, or when page.add_cookies raises.
SessionFileStates == {"absent", "fresh", "old"}
restore_session(file, addCookies) == file = "fresh" /\ addCookies = "ok"


\* The first position of each stage's function.
EntryPc(st) ==
    CASE st = "SESSION_RESTORE" -> "sr_navigate"
      [] st = "AUTOMATIC_LOGIN" -> "al_get_credentials"
      [] st = "MANUAL_ASSISTED" -> "ma_new_page"

\* Calling a stage's function / returning from it.
Enter(st, evs) ==
    /\ stage' = st
    /\ pc' = EntryPc(st)
    /\ trace' = trace \o evs \o <<Ev("enter", st, "")>>

StageReturn(res, evs) ==
    /\ stageResult' = res
    /\ pc' = "stage_return"
    /\ trace' = trace \o evs \o <<Ev("return", stage, res)>>

Goto(label, evs) ==
    /\ pc' = label
    /\ trace' = trace \o evs

LoginInit ==
    /\ pc = "idle"
    /\ strategy = "HYBRID_APPROACH"
    /\ stageIdx = 0
    /\ stage = "none"
    /\ stageResult = "none"
    /\ ret = "none"
    /\ trace = <<>>
    /\ probes = <<>>
    /\ manual_page = "none"
    /\ last_session_file \in SessionFileStates

\* YouTubeLoginHandler.login: dispatch on the strategy.
Login ==
    /\ pc = "idle"
    /\ \E s \in Strategies :
        /\ strategy' = s
        /\ IF s = "HYBRID_APPROACH"
           THEN /\ pc' = "hybrid_loop"
                /\ UNCHANGED <<stage, trace>>
           ELSE Enter(s, <<>>)
    /\ UNCHANGED <<stageIdx, stageResult, ret, probes, last_session_file,
                   manual_page, cm>>
    /\ UNCHANGED loginFrame

\* _hybrid_login_approach: the head of `for strategy, description in strategies`.
HybridLoop ==
    /\ pc = "hybrid_loop"
    /\ IF stageIdx < Len(HybridStrategies)
       THEN /\ stageIdx' = stageIdx + 1
            /\ Enter(HybridStrategies[stageIdx + 1], <<>>)
            /\ UNCHANGED ret
       ELSE /\ ret' = "FAILED"
            /\ pc' = "done"
            /\ UNCHANGED <<stageIdx, stage, trace>>
    /\ UNCHANGED <<strategy, stageResult, probes, last_session_file, manual_page, cm>>
    /\ UNCHANGED loginFrame

\* Faulty variant: the early return on SUCCESS is missing.
HybridCheckResultNoReturn ==
    /\ pc = "stage_return"
    /\ strategy = "HYBRID_APPROACH"
    /\ pc' = "hybrid_pause"
    /\ UNCHANGED <<strategy, stageIdx, stage, stageResult, ret, trace, probes,
                   last_session_file, manual_page, cm>>
    /\ UNCHANGED loginFrame

\* Faulty variant: the hybrid policy returns any stage result but FAILED.
HybridCheckResultNotFailed ==
    /\ pc = "stage_return"
    /\ strategy = "HYBRID_APPROACH"
    /\ IF stageResult # "FAILED"
       THEN /\ ret' = stageResult
            /\ pc' = "done"
       ELSE /\ pc' = "hybrid_pause"
            /\ UNCHANGED ret
    /\ UNCHANGED <<strategy, stageIdx, stage, stageResult, trace, probes,
                   last_session_file, manual_page, cm>>
    /\ UNCHANGED loginFrame

\* _hybrid_login_approach: `if result == LoginResult.SUCCESS: return result`.
HybridCheckResult ==
    /\ pc = "stage_return"
    /\ strategy = "HYBRID_APPROACH"
    /\ IF stageResult = "SUCCESS"
       THEN /\ ret' = "SUCCESS"
            /\ pc' = "done"
       ELSE /\ pc' = "hybrid_pause"
            /\ UNCHANGED ret
    /\ UNCHANGED <<strategy, stageIdx, stage, stageResult, trace, probes,
                   last_session_file, manual_page, cm>>
    /\ UNCHANGED loginFrame

\* _hybrid_login_approach: `await asyncio.sleep(random.uniform(2.0, 4.0))`.
HybridPause ==
    /\ pc = "hybrid_pause"
    /\ Goto("hybrid_loop", <<Ev("pause", "", "")>>)
    /\ UNCHANGED <<strategy, stageIdx, stage, stageResult, ret, probes,
                   last_session_file, manual_page, cm>>
    /\ UNCHANGED loginFrame

\* login: `return await self._<stage>()` of the single-stage strategies.
LoginReturn ==
    /\ pc = "stage_return"
    /\ strategy # "HYBRID_APPROACH"
    /\ ret' = stageResult
    /\ pc' = "done"
    /\ UNCHANGED <<strategy, stageIdx, stage, stageResult, trace, probes,
                   last_session_file, manual_page, cm>>
    /\ UNCHANGED loginFrame

\* Faulty variant: login lets the exception through.
LoginCatchMissing ==
    /\ pc = "raised"
    /\ ret' = "RAISED"
    /\ pc' = "done"
    /\ UNCHANGED <<strategy, stageIdx, stage, stageResult, trace, probes,
                   last_session_file, manual_page, cm>>
    /\ UNCHANGED loginFrame

\* login: `except Exception as e: ... return LoginResult.FAILED`.
LoginCatch ==
    /\ pc = "raised"
    /\ ret' = "FAILED"
    /\ pc' = "done"
    /\ UNCHANGED <<strategy, stageIdx, stage, stageResult, trace, probes,
                   last_session_file, manual_page, cm>>
    /\ UNCHANGED loginFrame

(* _try_session_restore *)
SrNavigate ==
    /\ pc = "sr_navigate"
    /\ \E ok \in BOOLEAN : Goto("sr_is_logged_in", <<Ev("navigate", "youtube", "")>>)
    /\ UNCHANGED <<strategy, stageIdx, stage, stageResult, ret, probes,
                   last_session_file, manual_page, cm>>
    /\ UNCHANGED loginFrame

\* Faulty variant: the saved session is restored whatever the first check found.
SrIsLoggedInIgnored ==
    /\ pc = "sr_is_logged_in"
    /\ \E r \in IsLoggedInOutcomes :
        /\ probes' = r.probes
        /\ Goto("sr_restore",
                r.events \o <<Ev("is_logged_in", IF r.val THEN "true" ELSE "false", "")>>)
        /\ UNCHANGED stageResult
    /\ UNCHANGED <<strategy, stageIdx, stage, ret, last_session_file, manual_page, cm>>
    /\ UNCHANGED loginFrame

SrIsLoggedIn ==
    /\ pc = "sr_is_logged_in"
    /\ \E r \in IsLoggedInOutcomes :
        /\ probes' = r.probes
        /\ IF r.val
           THEN StageReturn("SUCCESS", r.events \o <<Ev("is_logged_in", "true", "")>>)
           ELSE /\ Goto("sr_restore", r.events \o <<Ev("is_logged_in", "false", "")>>)
                /\ UNCHANGED stageResult
    /\ UNCHANGED <<strategy, stageIdx, stage, ret, last_session_file, manual_page, cm>>
    /\ UNCHANGED loginFrame

SrRestoreSession ==
    /\ pc = "sr_restore"
    /\ \E a \in ActOutcomes :
        IF restore_session(last_session_file, a)
        THEN /\ Goto("sr_recheck", <<Ev("restore_session", "true", "")>>)
             /\ UNCHANGED stageResult
        ELSE StageReturn("FAILED", <<Ev("restore_session", "false", "")>>)
    /\ UNCHANGED <<strategy, stageIdx, stage, ret, probes, last_session_file,
                   manual_page, cm>>
    /\ UNCHANGED loginFrame

SrRecheck ==
    /\ pc = "sr_recheck"
    /\ \E r \in IsLoggedInOutcomes :
        /\ probes' = r.probes
        /\ IF r.val
           THEN StageReturn("SUCCESS", r.events \o <<Ev("is_logged_in", "true", "")>>)
           ELSE StageReturn("FAILED", r.events \o <<Ev("is_logged_in", "false", "")>>)
    /\ UNCHANGED <<strategy, stageIdx, stage, ret, last_session_file, manual_page, cm>>
    /\ UNCHANGED loginFrame

(* _automatic_login *)
AlGetCredentials ==
    /\ pc = "al_get_credentials"
    /\ \E inp \in PromptInputs(cm) :
        LET r == get_credentials(cm, environ, inp)
        IN /\ cm' = r.st
           /\ IF r.raised
              THEN /\ Goto("raised", <<Ev("get_credentials", "raised", "")>>)
                   /\ UNCHANGED stageResult
              ELSE IF r.val.creds = None
              THEN StageReturn("MANUAL_INTERVENTION",
                               <<Ev("get_credentials", "none", "")>>)
              ELSE /\ Goto("al_navigate", <<Ev("get_credentials", "creds", "")>>)
                   /\ UNCHANGED stageResult
    /\ UNCHANGED <<strategy, stageIdx, stage, ret, probes, last_session_file,
                   manual_page>>
    /\ UNCHANGED loginFrame

AlNavigate ==
    /\ pc = "al_navigate"
    /\ \E ok \in BOOLEAN : Goto("al_fill_email", <<Ev("navigate", "signin", "")>>)
    /\ UNCHANGED <<strategy, stageIdx, stage, stageResult, ret, probes,
                   last_session_file, manual_page, cm>>
    /\ UNCHANGED loginFrame

AlFillEmail ==
    /\ pc = "al_fill_email"
    /\ \E r \in FillEmailOutcomes :
        /\ probes' = r.probes
        /\ IF r.val # "SUCCESS"
           THEN StageReturn(r.val, r.events)
           ELSE /\ Goto("al_fill_password", r.events)
                /\ UNCHANGED stageResult
    /\ UNCHANGED <<strategy, stageIdx, stage, ret, last_session_file, manual_page, cm>>
    /\ UNCHANGED loginFrame

AlFillPassword ==
    /\ pc = "al_fill_password"
    /\ \E r \in FillPasswordOutcomes :
        /\ probes' = r.probes
        /\ IF r.val # "SUCCESS"
           THEN StageReturn(r.val, r.events)
           ELSE /\ Goto("al_check_success", r.events)
                /\ UNCHANGED stageResult
    /\ UNCHANGED <<strategy, stageIdx, stage, ret, last_session_file, manual_page, cm>>
    /\ UNCHANGED loginFrame

AlCheckSuccess ==
    /\ pc = "al_check_success"
    /\ \E r \in CheckLoginSuccessOutcomes, ok \in BOOLEAN :
        /\ probes' = r.probes
        /\ IF r.val = "true"
           THEN StageReturn("SUCCESS", r.events \o <<Ev("navigate", "youtube", "")>>)
           ELSE StageReturn("FAILED", r.events)
    /\ UNCHANGED <<strategy, stageIdx, stage, ret, last_session_file, manual_page, cm>>
    /\ UNCHANGED loginFrame

(* _manual_assisted_login *)
MaNewPage ==
    /\ pc = "ma_new_page"
    /\ \E a \in ActOutcomes :
        IF a = "raise"
        THEN /\ StageReturn("FAILED", <<Ev("manual", "new_page", "raise")>>)
             /\ UNCHANGED manual_page
        ELSE /\ Goto("ma_goto", <<Ev("manual", "new_page", "ok")>>)
             /\ manual_page' = "open"
             /\ UNCHANGED stageResult
    /\ UNCHANGED <<strategy, stageIdx, stage, ret, probes, last_session_file, cm>>
    /\ UNCHANGED loginFrame

MaGoto ==
    /\ pc = "ma_goto"
    /\ \E a \in ActOutcomes :
        IF a = "raise"
        THEN StageReturn("FAILED", <<Ev("manual", "goto", "raise")>>)
        ELSE /\ Goto("ma_input", <<Ev("manual", "goto", "ok")>>)
             /\ UNCHANGED stageResult
    /\ UNCHANGED <<strategy, stageIdx, stage, ret, probes, last_session_file,
                   manual_page, cm>>
    /\ UNCHANGED loginFrame

\* Faulty variant: the indicator is checked right after the operator's
\* answer, with the secondary page still open and no navigation.
MaInputThenCheck ==
    /\ pc = "ma_input"
    /\ \E a \in ActOutcomes :
        IF a = "raise"
        THEN StageReturn("FAILED", <<Ev("manual", "input", "raise")>>)
        ELSE /\ Goto("ma_is_logged_in", <<Ev("manual", "input", "ok")>>)
             /\ UNCHANGED stageResult
    /\ UNCHANGED <<strategy, stageIdx, stage, ret, probes, last_session_file,
                   manual_page, cm>>
    /\ UNCHANGED loginFrame

MaInput ==
    /\ pc = "ma_input"
    /\ \E a \in ActOutcomes :
        IF a = "raise"
        THEN StageReturn("FAILED", <<Ev("manual", "input", "raise")>>)
        ELSE /\ Goto("ma_close", <<Ev("manual", "input", "ok")>>)
             /\ UNCHANGED stageResult
    /\ UNCHANGED <<strategy, stageIdx, stage, ret, probes, last_session_file,
                   manual_page, cm>>
    /\ UNCHANGED loginFrame

MaClose ==
    /\ pc = "ma_close"
    /\ \E a \in ActOutcomes :
        IF a = "raise"
        THEN /\ StageReturn("FAILED", <<Ev("manual", "close", "raise")>>)
             /\ UNCHANGED manual_page
        ELSE /\ Goto("ma_navigate", <<Ev("manual", "close", "ok")>>)
             /\ manual_page' = "closed"
             /\ UNCHANGED stageResult
    /\ UNCHANGED <<strategy, stageIdx, stage, ret, probes, last_session_file, cm>>
    /\ UNCHANGED loginFrame

MaNavigate ==
    /\ pc = "ma_navigate"
    /\ \E ok \in BOOLEAN : Goto("ma_is_logged_in", <<Ev("navigate", "youtube", "")>>)
    /\ UNCHANGED <<strategy, stageIdx, stage, stageResult, ret, probes,
                   last_session_file, manual_page, cm>>
    /\ UNCHANGED loginFrame

MaIsLoggedIn ==
    /\ pc = "ma_is_logged_in"
    /\ \E r \in IsLoggedInOutcomes :
        /\ probes' = r.probes
        /\ IF r.val
           THEN StageReturn("SUCCESS", r.events \o <<Ev("is_logged_in", "true", "")>>)
           ELSE StageReturn("FAILED", r.events \o <<Ev("is_logged_in", "false", "")>>)
    /\ UNCHANGED <<strategy, stageIdx, stage, ret, last_session_file, manual_page, cm>>
    /\ UNCHANGED loginFrame

LoginNext ==
    \/ Login
    \/ HybridLoop
    \/ HybridCheckResult
    \/ HybridPause
    \/ LoginReturn
    \/ LoginCatch
    \/ SrNavigate
    \/ SrIsLoggedIn
    \/ SrRestoreSession
    \/ SrRecheck
    \/ AlGetCredentials
    \/ AlNavigate
    \/ AlFillEmail
    \/ AlFillPassword
    \/ AlCheckSuccess
    \/ MaNewPage
    \/ MaGoto
    \/ MaInput
    \/ MaClose
    \/ MaNavigate
    \/ MaIsLoggedIn

\* The login handler left alone, in a specification of another component.
LoginIdle ==
    /\ LoginInit
    /\ last_session_file = "absent"

(***************************************************************************)
(* AdvancedStealthEngine and ContextRotator                                *)
(*                                                                         *)
(* A table entry is named by what tells it from the others: a fingerprint  *)
(* by its user agent and viewport, a context by its profile_dir.           *)
(***************************************************************************)
MaxRotCalls == 7

\* _load_brazilian_fingerprints
_load_brazilian_fingerprints ==
    <<"Windows Chrome/118 1366x768", "Windows Chrome/117 1920x1080",
      "Macintosh Chrome/118 1440x900">>

\* ContextRotator.__init__: the browser_contexts table
InitialBrowserContexts ==
    <<"profile_win_chrome118", "profile_win11_chrome117", "profile_mac_chrome118">>

\* AdvancedStealthEngine.__init__
NewAdvancedStealthEngine ==
    [brazilian_fingerprints |-> _load_brazilian_fingerprints,
     current_fingerprint |-> None]

\* ContextRotator.__init__
NewContextRotator ==
    [browser_contexts |-> InitialBrowserContexts, current_context_index |-> 0]

\* random.choice(seq): picked is the position random picks, from 0.
RandomChoice(seq, picked) == seq[picked + 1]
Picks(seq) == 0..(Len(seq) - 1)

\* Faulty variant: the selected fingerprint is not recorded.
select_random_fingerprint_unrecorded(st, picked) ==
    Out(st, FALSE, RandomChoice(st.brazilian_fingerprints, picked))

select_random_fingerprint(st, picked) ==
    LET chosen == RandomChoice(st.brazilian_fingerprints, picked)
    IN Out([st EXCEPT !.current_fingerprint = Some(chosen)], FALSE, chosen)

\* Faulty variant: the index runs past the last entry before it wraps.
get_next_context_late_wrap(st) ==
    Out([st EXCEPT !.current_context_index =
             (st.current_context_index + 1) % (Len(st.browser_contexts) + 1)],
        FALSE,
        st.browser_contexts[(st.current_context_index % Len(st.browser_contexts)) + 1])

get_next_context(st) ==
    Out([st EXCEPT !.current_context_index =
             (st.current_context_index + 1) % Len(st.browser_contexts)],
        FALSE, st.browser_contexts[st.current_context_index + 1])

get_random_context(st, picked) ==
    Out(st, FALSE, RandomChoice(st.browser_contexts, picked))

RotInit ==
    /\ eng = NewAdvancedStealthEngine
    /\ rot = NewContextRotator
    /\ rotCalls = 0
    /\ rotOp = "init"
    /\ rotRet = ""

\* A new engine and a new rotator are constructed.
NewStealthObjects ==
    /\ UNCHANGED rotFrame
    /\ rotOp # "init"
    /\ eng' = NewAdvancedStealthEngine
    /\ rot' = NewContextRotator
    /\ rotCalls' = 0
    /\ rotOp' = "init"
    /\ rotRet' = ""

SelectRandomFingerprint ==
    /\ UNCHANGED rotFrame
    /\ \E picked \in Picks(eng.brazilian_fingerprints) :
           LET r == select_random_fingerprint(eng, picked)
           IN /\ eng' = r.st
              /\ rotOp' = "select_random_fingerprint"
              /\ rotRet' = r.val
              /\ UNCHANGED <<rot, rotCalls>>

GetNextContext ==
    /\ UNCHANGED rotFrame
    /\ rotCalls < MaxRotCalls
    /\ LET r == get_next_context(rot)
       IN /\ rot' = r.st
          /\ rotCalls' = rotCalls + 1
          /\ rotOp' = "get_next_context"
          /\ rotRet' = r.val
          /\ UNCHANGED eng

GetRandomContext ==
    /\ UNCHANGED rotFrame
    /\ \E picked \in Picks(rot.browser_contexts) :
           LET r == get_random_context(rot, picked)
           IN /\ rot' = r.st
              /\ rotOp' = "get_random_context"
              /\ rotRet' = r.val
              /\ UNCHANGED <<eng, rotCalls>>

\* The stealth objects left alone, in a specification of another component.
RotIdle == RotInit

RotNext ==
    \/ NewStealthObjects
    \/ SelectRandomFingerprint
    \/ GetNextContext
    \/ GetRandomContext

(***************************************************************************)
(* BrowserManager (src/core/browser_manager.py)                            *)
(*                                                                         *)
(* bm is the manager object: its four driver handles ("none" for None,     *)
(* "open", "closed"), the url of the page, and its stealth engine and      *)
(* context rotator.  disk is the profile directory browser_profiles/<name> *)
(* and its last_session.json; writtenAt is the real time at which the      *)
(* record was written, which the file itself does not hold.  wall is real  *)
(* time in seconds and boot the real time at which the machine started;    *)
(* the event loop's clock is monotonic and counts from there.              *)
(***************************************************************************)
MaxElapses == 2
SessionHorizon == 86400

\* asyncio.get_event_loop().time()
LoopTime(w, b) == w - b

\* BrowserManager.__init__
NewBrowserManager ==
    [playwright |-> "none", browser |-> "none", context |-> "none",
     page |-> "none", url |-> "about:blank",
     stealth_engine |-> NewAdvancedStealthEngine,
     context_rotator |-> NewContextRotator]

\* The result of one operation: whether it raised, what it returned, and
\* whether it called browser.close() and page.add_cookies().
BmOut(b, d, raised, val, closeAttempted, cookiesAdded) ==
    [bm |-> b, disk |-> d, raised |-> raised, val |-> val,
     closeAttempted |-> closeAttempted, cookiesAdded |-> cookiesAdded]

NoBmRet == [raised |-> FALSE, val |-> "", closeAttempted |-> FALSE,
            cookiesAdded |-> FALSE, browserBefore |-> "none"]

\* cleanup closes page, context and browser and stops playwright, in that
\* order, each if its handle is set; fail is the position of the call that
\* raises (0: none), after which the rest is skipped.  Only a call that is
\* made can raise.
CleanupOrder == <<"page", "context", "browser", "playwright">>
CleanupFails(b) ==
    {0} \cup {k \in 1..Len(CleanupOrder) : b[CleanupOrder[k]] # "none"}
cleanup(b, fail) ==
    [f \in DOMAIN b |->
        IF \E k \in 1..Len(CleanupOrder) :
               /\ CleanupOrder[k] = f
               /\ b[f] # "none"
               /\ (fail = 0 \/ k < fail)
        THEN "closed" ELSE b[f]]

\* The steps of launch_stealth_browser that can raise, in order.
LaunchSteps ==
    <<"async_playwright", "start", "launch", "new_context", "new_page",
      "stealth_async", "inject_stealth_scripts">>
LaunchFails == 0..Len(LaunchSteps)

\* The manager after the steps of launch_stealth_browser before step fail
\* (all of them for fail = 0).
Launched(b, context_rotation, picked, fail) ==
    LET done(k) == fail = 0 \/ k < fail
    IN [b EXCEPT
          !.context_rotator =
              IF context_rotation /\ done(1) THEN get_next_context(@).st ELSE @,
          !.stealth_engine =
              IF done(1) THEN select_random_fingerprint(@, picked).st ELSE @,
          !.playwright = IF done(2) THEN "open" ELSE @,
          !.browser = IF done(3) THEN "open" ELSE @,
          !.context = IF done(4) THEN "open" ELSE @,
          !.page = IF done(5) THEN "open" ELSE @,
          !.url = IF done(5) THEN "about:blank" ELSE @]

launch_stealth_browser(b, d, context_rotation, picked, fail, cfail) ==
    IF fail = 0
    THEN BmOut(Launched(b, context_rotation, picked, fail), d, FALSE, "browser, page",
               FALSE, FALSE)
    ELSE \* except Exception: print; await self.cleanup(); raise
         BmOut(cleanup(Launched(b, context_rotation, picked, fail), cfail), d,
               TRUE, "", FALSE, FALSE)

DriverOutcomes == {"ok", "raise"}

\* A call on self.page: with no page it raises AttributeError.
PageCall(b, outcome) == IF b.page = "none" THEN "raise" ELSE outcome

navigate_safely(b, d, url, goto) ==
    IF PageCall(b, goto) = "raise" THEN BmOut(b, d, FALSE, FALSE, FALSE, FALSE)
    ELSE BmOut([b EXCEPT !.url = url], d, FALSE, TRUE, FALSE, FALSE)

take_screenshot(b, d, screenshot) ==
    IF PageCall(b, screenshot) = "raise" THEN BmOut(b, d, FALSE, "", FALSE, FALSE)
    ELSE BmOut(b, d, FALSE, "temp_screenshots/screenshot.png", FALSE, FALSE)

clear_browser_data(b, d, evaluate) == BmOut(b, d, FALSE, "", FALSE, FALSE)

\* close_browser writes session_data with json.dump, as text: the file holds
\* the cookies, the url and the timestamp themselves.
\* What happens to the session record in close_browser: page.cookies() or the
\* writing of the file may raise, and open(session_file, 'w') does raise
\* when the profile directory does not exist.
PersistOutcomes == {"ok", "cookies_raise", "write_raise"}
Persisted(d, persist) ==
    IF persist = "ok" /\ ~d.profile_dir THEN "write_raise" ELSE persist

close_browser(b, d, now, realNow, save_session, persist, close) ==
    LET saving == save_session /\ b.page # "none"
        saved == saving /\ Persisted(d, persist) = "ok"
        d2 == IF saved
              THEN [d EXCEPT !.last_session =
                       Some([cookies |-> "[sid=1]", url |-> b.url,
                             timestamp |-> now, writtenAt |-> realNow])]
              ELSE d
    IN IF saving /\ ~saved
       THEN \* except Exception: print
            BmOut(b, d, FALSE, "", FALSE, FALSE)
       ELSE IF b.browser # "none"
       THEN BmOut(IF close = "ok" THEN [b EXCEPT !.browser = "closed"] ELSE b,
                  d2, FALSE, "", TRUE, FALSE)
       ELSE BmOut(b, d2, FALSE, "", FALSE, FALSE)

\* BrowserManager.restore_session; now is the event loop's clock.
bm_restore_session(b, d, now, add_cookies, goto) ==
    IF d.last_session = None THEN BmOut(b, d, FALSE, FALSE, FALSE, FALSE)
    ELSE IF now - Elem(d.last_session).timestamp > SessionHorizon
    THEN BmOut(b, d, FALSE, FALSE, FALSE, FALSE)
    ELSE IF PageCall(b, add_cookies) = "raise"
    THEN BmOut(b, d, FALSE, FALSE, FALSE, FALSE)
    ELSE BmOut(IF Elem(d.last_session).url # "about:blank"
               THEN navigate_safely(b, d, Elem(d.last_session).url, goto).bm
               ELSE b,
               d, FALSE, TRUE, FALSE, TRUE)

BmReturn(op, arg, before, r) ==
    /\ bm' = r.bm
    /\ disk' = r.disk
    /\ bmOp' = op
    /\ bmArg' = arg
    /\ bmRet' = [raised |-> r.raised, val |-> r.val,
                 closeAttempted |-> r.closeAttempted,
                 cookiesAdded |-> r.cookiesAdded,
                 browserBefore |-> before.browser]
    /\ UNCHANGED <<wall, boot>>

BrowserInit ==
    /\ bm = NewBrowserManager
    /\ disk \in [profile_dir : BOOLEAN, last_session : {None}]
    /\ wall = 0
    /\ boot = 0
    /\ bmOp = "init"
    /\ bmArg = FALSE
    /\ bmRet = NoBmRet

\* A later run of the program constructs a new manager.
NewRun ==
    /\ UNCHANGED browserFrame
    /\ bmOp # "init"
    /\ bm' = NewBrowserManager
    /\ bmOp' = "init"
    /\ bmArg' = FALSE
    /\ bmRet' = NoBmRet
    /\ UNCHANGED <<disk, wall, boot>>

LaunchStealthBrowser ==
    /\ UNCHANGED browserFrame
    /\ bm.browser = "none"
    /\ \E context_rotation \in BOOLEAN, fail \in LaunchFails,
          picked \in Picks(bm.stealth_engine.brazilian_fingerprints) :
           \E cfail \in IF fail = 0 THEN {0}
                         ELSE CleanupFails(Launched(bm, context_rotation, picked, fail)) :
               BmReturn("launch_stealth_browser", context_rotation, bm,
                        launch_stealth_browser(bm, disk, context_rotation, picked,
                                               fail, cfail))

NavigateSafely ==
    /\ UNCHANGED browserFrame
    /\ \E goto \in DriverOutcomes :
           BmReturn("navigate_safely", FALSE, bm,
                    navigate_safely(bm, disk, "youtube.com", goto))

TakeScreenshot ==
    /\ UNCHANGED browserFrame
    /\ \E screenshot \in DriverOutcomes :
           BmReturn("take_screenshot", FALSE, bm,
                    take_screenshot(bm, disk, screenshot))

ClearBrowserData ==
    /\ UNCHANGED browserFrame
    /\ \E evaluate \in DriverOutcomes :
           BmReturn("clear_browser_data", FALSE, bm,
                    clear_browser_data(bm, disk, evaluate))

CloseBrowser ==
    /\ UNCHANGED browserFrame
    /\ \E save_session \in BOOLEAN, persist \in PersistOutcomes,
          close \in DriverOutcomes :
           BmReturn("close_browser", save_session, bm,
                    close_browser(bm, disk, LoopTime(wall, boot), wall,
                                  save_session, persist, close))

RestoreSession ==
    /\ UNCHANGED browserFrame
    /\ \E add_cookies \in DriverOutcomes, goto \in DriverOutcomes :
           BmReturn("restore_session", FALSE, bm,
                    bm_restore_session(bm, disk, LoopTime(wall, boot),
                                       add_cookies, goto))

Cleanup ==
    /\ UNCHANGED browserFrame
    /\ \E fail \in CleanupFails(bm) :
           BmReturn("cleanup", FALSE, bm,
                    BmOut(cleanup(bm, fail), disk, FALSE, "", FALSE, FALSE))

\* A day passes with no run of the program.
Elapse ==
    /\ UNCHANGED browserFrame
    /\ bmOp = "init"
    /\ wall < MaxElapses * SessionHorizon
    /\ wall' = wall + SessionHorizon
    /\ UNCHANGED <<bm, disk, boot, bmOp, bmArg, bmRet>>

\* The machine is restarted between two runs.
Reboot ==
    /\ UNCHANGED browserFrame
    /\ bmOp = "init"
    /\ boot # wall
    /\ boot' = wall
    /\ UNCHANGED <<bm, disk, wall, bmOp, bmArg, bmRet>>

\* The manager left alone, in a specification of another component.
BrowserIdle ==
    /\ bm = NewBrowserManager
    /\ disk = [profile_dir |-> FALSE, last_session |-> None]
    /\ wall = 0
    /\ boot = 0
    /\ bmOp = "init"
    /\ bmArg = FALSE
    /\ bmRet = NoBmRet

BrowserNext ==
    \/ NewRun
    \/ LaunchStealthBrowser
    \/ NavigateSafely
    \/ TakeScreenshot
    \/ ClearBrowserData
    \/ CloseBrowser
    \/ RestoreSession
    \/ Cleanup
    \/ Elapse
    \/ Reboot

(***************************************************************************)
(* The programs: main_new.py, main_v2.py, main.py, check_credentials.py    *)
(* and YouTubeAutomator.execute_full_automation.                           *)
(*                                                                         *)
(* runIn is the program that ran with the inputs of that run; runOut is    *)
(* what the run did: the calls it made in order, the lines it printed,     *)
(* the value it returned ("None" when it returned nothing), the exception  *)
(* that left it ("" for none) and the exit status of the process.          *)
(***************************************************************************)
RunOut(events, console, result, exc, exit) ==
    [events |-> events, console |-> console, result |-> result, exc |-> exc,
     exit |-> exit]

\* ScreenshotManager.cleanup_old_screenshots is a plain def that returns an
\* int, not a coroutine: awaiting its result raises TypeError.
CleanupOldScreenshotsIsCoroutine == FALSE

Stages ==
    <<"_navigate_to_youtube", "_perform_login", "_explore_youtube",
      "_simulate_human_activity">>
StageEnds == {"False", "raise", "interrupt"}

\* YouTubeAutomator.cleanup: the TypeError of its await is caught inside.
automator_cleanup == <<"browser_manager.cleanup", "cleanup_old_screenshots">>

\* execute_full_automation: the stages run in order up to stage stop, which
\* ends as how says (stop = 0: every stage returns True); an interrupt is a
\* KeyboardInterrupt, which except Exception does not catch.
execute_full_automation(is_running, stop, how) ==
    LET ran == IF ~is_running THEN <<>>
               ELSE IF stop = 0 THEN Stages ELSE SubSeq(Stages, 1, stop)
    IN RunOut(ran \o <<"cleanup">> \o automator_cleanup, <<>>,
              IF stop # 0 /\ how = "interrupt" /\ is_running THEN "None"
              ELSE IF is_running /\ stop = 0 THEN "True" ELSE "False",
              IF stop # 0 /\ how = "interrupt" /\ is_running
              THEN "KeyboardInterrupt" ELSE "",
              None)

\* The status with which the interpreter ends when main() returned success.
ExitCode(success) == IF success = "True" THEN 0 ELSE 1

\* main_new.py: main() and the __main__ block.
main_new_main(init, stop, how) ==
    IF ~CleanupOldScreenshotsIsCoroutine
    THEN \* line 34, outside the try: the traceback ends the process
         RunOut(<<"cleanup_old_screenshots">>, <<>>, "None", "TypeError", Some(1))
    ELSE LET full == execute_full_automation(TRUE, stop, how)
             body == IF init = "raise"
                     THEN RunOut(<<"initialize">> \o automator_cleanup, <<>>,
                                 "False", "", None)
                     ELSE RunOut(<<"initialize">> \o full.events, <<>>,
                                 IF full.exc # "" THEN "False" ELSE full.result,
                                 "", None)
         IN RunOut(<<"cleanup_old_screenshots">> \o body.events
                       \o <<"cleanup">> \o automator_cleanup
                       \o <<"cleanup_old_screenshots">>,
                   <<>>, body.result, "", Some(ExitCode(body.result)))

\* Faulty variant: the cleanup of run called after the try statement, not in
\* its finally clause.
app_run_no_finally(init, login, after, keep_open, interrupted) ==
    IF init = "raise" THEN RunOut(<<"initialize">>, <<>>, "False", "", None)
    ELSE IF interrupted
    THEN RunOut(<<"initialize", "run_automation">>, <<>>, "None",
                "KeyboardInterrupt", None)
    ELSE IF login # "SUCCESS" \/ after = "raise"
    THEN RunOut(<<"initialize", "run_automation">>, <<>>, "False", "", None)
    ELSE RunOut(<<"initialize", "run_automation">>
                    \o (IF keep_open THEN <<"_is_logged_in">> ELSE <<>>)
                    \o <<"cleanup", "close_browser">>,
                <<>>, "True", "", None)

\* YouTubeAutomationApp.run: initialize returns False when the launch raises;
\* run_automation returns False unless login returns SUCCESS and the steps
\* after it do not raise; an interrupt (KeyboardInterrupt) passes except
\* Exception; cleanup, in the finally clause, calls
\* close_browser(save_session=True).
app_run(init, login, after, keep_open, interrupted) ==
    LET teardown == <<"cleanup", "close_browser">>
    IN IF init = "raise"
       THEN RunOut(<<"initialize">> \o teardown, <<>>, "False", "", None)
       ELSE IF interrupted
       THEN RunOut(<<"initialize", "run_automation">> \o teardown, <<>>, "None",
                   "KeyboardInterrupt", None)
       ELSE IF login # "SUCCESS" \/ after = "raise"
       THEN RunOut(<<"initialize", "run_automation">> \o teardown, <<>>,
                   "False", "", None)
       ELSE RunOut(<<"initialize", "run_automation">>
                       \o (IF keep_open THEN <<"_is_logged_in">> ELSE <<>>)
                       \o teardown,
                   <<>>, "True", "", None)

Modes == {"setup", "credentials", "run"}
CallOutcomes == {"ok", "fail", "raise"}

\* Faulty variant: a failed run ends main without sys.exit(1).
main_v2_main_no_exit(mode, sub, r) ==
    IF mode \in {"setup", "credentials"}
    THEN RunOut(<<IF mode = "setup" THEN "setup_project"
                  ELSE "setup_credentials_interactively">>,
                IF sub = "raise" THEN <<"Erro fatal">> ELSE <<>>,
                "None", "", Some(IF sub = "raise" THEN 1 ELSE 0))
    ELSE IF r.exc # ""
    THEN RunOut(r.events, <<"Execucao interrompida pelo usuario">>, "None", "",
                Some(0))
    ELSE RunOut(r.events, <<>>, r.result, "", Some(0))

\* main_v2.py: main(); r is what app.run did.  Returning from main ends the
\* process with status 0.
main_v2_main(mode, sub, r) ==
    IF mode \in {"setup", "credentials"}
    THEN RunOut(<<IF mode = "setup" THEN "setup_project"
                  ELSE "setup_credentials_interactively">>,
                IF sub = "raise" THEN <<"Erro fatal">> ELSE <<>>,
                "None", "", Some(IF sub = "raise" THEN 1 ELSE 0))
    ELSE IF r.exc # ""
    THEN RunOut(r.events, <<"Execucao interrompida pelo usuario">>, "None", "",
                Some(0))
    ELSE IF r.result = "True"
    THEN RunOut(r.events, <<"AUTOMACAO CONCLUIDA COM SUCESSO!">>, r.result, "",
                Some(0))
    ELSE RunOut(r.events, <<"AUTOMACAO FALHOU">>, r.result, "", Some(1))

\* The values of YOUTUBE_EMAIL and YOUTUBE_PASSWORD ("": not set).
EmailValues == {"", "seu.email@gmail.com", "ana@gmail.com"}
PasswordValues == {"", "suaSenhaSegura", "s3nha"}
MainEnds == {"completed", "returned", "raised"}

\* main.py: main().  start is the outcome of uc.start; a run with both
\* credentials goes on as ends says.
main_py_main(EMAIL, PASSWORD, start, ends) ==
    LET finally == <<"Finalizando automacao...">>
    IN IF start = "raise"
       THEN RunOut(<<"cleanup_old_screenshots", "uc.start", "finally">>,
                   <<"Iniciando automacao stealth do YouTube...",
                     "Erro durante a execucao">> \o finally,
                   "None", "", Some(0))
       ELSE IF EMAIL = "" \/ PASSWORD = ""
       THEN RunOut(<<"cleanup_old_screenshots", "uc.start", "browser.get",
                     "take_screenshot", "finally", "browser.stop">>,
                   <<"Iniciando automacao stealth do YouTube...",
                     "ERRO: Credenciais nao encontradas!">> \o finally,
                   "None", "", Some(0))
       ELSE RunOut(<<"cleanup_old_screenshots", "uc.start", "browser.get",
                     "login", "finally", "browser.stop">>,
                   <<"Iniciando automacao stealth do YouTube...",
                     "Fazendo login com: " \o EMAIL>>
                     \o (IF ends = "raised" THEN <<"Erro durante a execucao">>
                         ELSE IF ends = "completed"
                         THEN <<"Automacao executada com sucesso!">>
                         ELSE <<>>)
                     \o finally,
                   "None", "", Some(0))

\* '*' * n
RECURSIVE Stars(_)
Stars(n) == IF n = 0 THEN "" ELSE "*" \o Stars(n - 1)

\* check_credentials.py: check_credentials()
check_credentials(email, password) ==
    IF email = "" \/ email = "seu.email@gmail.com"
    THEN RunOut(<<>>, <<"Verificando configuracao de credenciais...",
                        "EMAIL: Nao configurado ou usando valor de exemplo">>,
                "False", "", None)
    ELSE IF password = "" \/ password = "suaSenhaSegura"
    THEN RunOut(<<>>, <<"Verificando configuracao de credenciais...",
                        "EMAIL: " \o email,
                        "SENHA: Nao configurada ou usando valor de exemplo">>,
                "False", "", None)
    ELSE RunOut(<<>>, <<"Verificando configuracao de credenciais...",
                        "EMAIL: " \o email,
                        "SENHA: " \o Stars(Len(password)) \o " (configurada)",
                        "Credenciais configuradas corretamente!">>,
                "True", "", None)

NoRun == [prog |-> "none"]

RunInit ==
    /\ runIn = NoRun
    /\ runOut = RunOut(<<>>, <<>>, "None", "", None)

MainNew ==
    /\ UNCHANGED runFrame
    /\ \E init \in {"ok", "raise"}, stop \in 0..Len(Stages), how \in StageEnds :
           /\ runIn' = [prog |-> "main_new", init |-> init, stop |-> stop,
                        how |-> how]
           /\ runOut' = main_new_main(init, stop, how)

MainV2 ==
    /\ UNCHANGED runFrame
    /\ \E mode \in Modes, sub \in CallOutcomes, init \in {"ok", "raise"},
          login \in LoginResults, after \in {"ok", "raise"},
          keep_open \in BOOLEAN, interrupted \in BOOLEAN :
           /\ runIn' = [prog |-> "main_v2", mode |-> mode, sub |-> sub,
                        init |-> init, login |-> login, after |-> after,
                        keep_open |-> keep_open, interrupted |-> interrupted]
           /\ runOut' = main_v2_main(mode, sub,
                                     app_run(init, login, after, keep_open,
                                             interrupted))

ExecuteFullAutomation ==
    /\ UNCHANGED runFrame
    /\ \E is_running \in BOOLEAN, stop \in 0..Len(Stages), how \in StageEnds :
           /\ runIn' = [prog |-> "execute_full_automation",
                        is_running |-> is_running, stop |-> stop, how |-> how]
           /\ runOut' = execute_full_automation(is_running, stop, how)

MainPy ==
    /\ UNCHANGED runFrame
    /\ \E EMAIL \in EmailValues, PASSWORD \in PasswordValues,
          start \in {"ok", "raise"}, ends \in MainEnds :
           /\ runIn' = [prog |-> "main", email |-> EMAIL, password |-> PASSWORD,
                        start |-> start, ends |-> ends]
           /\ runOut' = main_py_main(EMAIL, PASSWORD, start, ends)

CheckCredentials ==
    /\ UNCHANGED runFrame
    /\ \E email \in EmailValues, password \in PasswordValues :
           /\ runIn' = [prog |-> "check_credentials", email |-> email,
                        password |-> password]
           /\ runOut' = check_credentials(email, password)

\* No program has run, in a specification of another component.
RunIdle == RunInit

RunNext ==
    \/ MainNew
    \/ MainV2
    \/ ExecuteFullAutomation
    \/ MainPy
    \/ CheckCredentials

(***************************************************************************)
(* YouTubeAutomator (src/automation/youtube_automator.py)                  *)
(*                                                                         *)
(* au is the automator's state, is_running and current_step; auOp, auArg   *)
(* and auRet are its last call, the outcomes of the calls that call made,  *)
(* and its result with the steps it ran.                                   *)
(***************************************************************************)
\* YouTubeAutomator.__init__
NewYouTubeAutomator == [is_running |-> FALSE, current_step |-> "initializing"]

\* bool(member) of LoginResult, a plain Enum with no __bool__: every member
\* is true.
LoginResultTruthy(member) == TRUE

AuOut(a, val, events) == [au |-> a, val |-> val, events |-> events]

\* YouTubeAutomator.cleanup: the await of cleanup_old_screenshots' int raises
\* TypeError inside the try, before the two assignments.
au_cleanup(a) ==
    IF CleanupOldScreenshotsIsCoroutine
    THEN [a EXCEPT !.is_running = FALSE, !.current_step = "cleaned"]
    ELSE a

\* YouTubeAutomator.initialize
au_initialize(a, launch, capture) ==
    IF launch = "raise" \/ capture = "raise"
    THEN AuOut(au_cleanup(a), FALSE, <<"cleanup">>)
    ELSE AuOut([a EXCEPT !.is_running = TRUE, !.current_step = "ready"], TRUE, <<>>)

\* _perform_login: `if success:` on what login returned; "raise" is an
\* exception of wait_for_selector or of the click.
_perform_login(login) == login # "raise" /\ LoginResultTruthy(login)

PerformLoginOutcomes == LoginResults \cup {"raise"}

\* execute_full_automation with the outcomes of its four steps.
au_execute_full_automation(a, nav, login, explore, simulate) ==
    LET s1 == [a EXCEPT !.current_step = "navigating_to_youtube"]
        s2 == [a EXCEPT !.current_step = "performing_login"]
        s3 == [a EXCEPT !.current_step = "exploring_youtube"]
        s4 == [a EXCEPT !.current_step = "simulating_activity"]
    IN IF ~a.is_running THEN AuOut(au_cleanup(a), FALSE, <<"cleanup">>)
       ELSE IF ~nav
       THEN AuOut(au_cleanup(s1), FALSE, <<Stages[1], "cleanup">>)
       ELSE IF ~_perform_login(login)
       THEN AuOut(au_cleanup(s2), FALSE, SubSeq(Stages, 1, 2) \o <<"cleanup">>)
       ELSE IF ~explore
       THEN AuOut(au_cleanup(s3), FALSE, SubSeq(Stages, 1, 3) \o <<"cleanup">>)
       ELSE AuOut(au_cleanup(s4), simulate, Stages \o <<"cleanup">>)

AuReturn(op, arg, r) ==
    /\ au' = r.au
    /\ auOp' = op
    /\ auArg' = arg
    /\ auRet' = [val |-> r.val, events |-> r.events]

AutoInit ==
    /\ au = NewYouTubeAutomator
    /\ auOp = "init"
    /\ auArg = <<>>
    /\ auRet = [val |-> FALSE, events |-> <<>>]

NewAutomator ==
    /\ UNCHANGED autoFrame
    /\ auOp # "init"
    /\ AuReturn("init", <<>>, AuOut(NewYouTubeAutomator, FALSE, <<>>))

AuInitialize ==
    /\ UNCHANGED autoFrame
    /\ \E launch \in DriverOutcomes, capture \in DriverOutcomes :
           AuReturn("initialize", [launch |-> launch, capture |-> capture],
                    au_initialize(au, launch, capture))

AuExecuteFullAutomation ==
    /\ UNCHANGED autoFrame
    /\ \E nav \in BOOLEAN, login \in PerformLoginOutcomes, explore \in BOOLEAN,
          simulate \in BOOLEAN :
           AuReturn("execute_full_automation",
                    [nav |-> nav, login |-> login, explore |-> explore,
                     simulate |-> simulate],
                    au_execute_full_automation(au, nav, login, explore, simulate))

AuCleanup ==
    /\ UNCHANGED autoFrame
    /\ AuReturn("cleanup", <<>>, AuOut(au_cleanup(au), FALSE, <<>>))

\* The automator left alone, in a specification of another component.
AutoIdle == AutoInit

AutoNext ==
    \/ NewAutomator
    \/ AuInitialize
    \/ AuExecuteFullAutomation
    \/ AuCleanup

(***************************************************************************)
(* SessionManager                                                          *)
(*                                                                         *)
(* SessionInfo objects live in a heap (a sequence); a reference is an      *)
(* index into it, so that two references name the same object exactly      *)
(* when they are equal.  datetime.now() and time.time() read one clock.    *)
(***************************************************************************)

MaxSmTicks == 1
MaxSaves == 2
\* `if len(session_info.url_history) > 50`
HistoryLimit == 50

\* n visits, as an earlier run left them in a session's history.
Visits(n) == [i \in 1..n |-> IF i % 2 = 1 THEN "u1" ELSE "u2"]

\* datetime.isoformat and datetime.fromisoformat
isoformat(d) == [iso |-> d.datetime]
fromisoformat(s) == [datetime |-> s.iso]
\* list(x) and tuple(x); json keeps a list a list
list(x) == [kind |-> "list", items |-> x.items]
tuple(x) == [kind |-> "tuple", items |-> x.items]
\* dict.update, a dict being a set of <<key, value>> pairs
DictUpdate(d, e) == {p \in d : \A q \in e : q[1] # p[1]} \cup e

\* url_history[-50:] when the history is longer than 50, keeping the head
\* instead of the tail.
TrimHistoryHead(h) ==
    IF Len(h) > HistoryLimit THEN SubSeq(h, 1, HistoryLimit) ELSE h

\* `if len(url_history) > 50: url_history = url_history[-50:]`
TrimHistory(h) ==
    IF Len(h) > HistoryLimit
    THEN SubSeq(h, Len(h) - HistoryLimit + 1, Len(h))
    ELSE h

\* The SessionInfo create_session builds.
NewSessionInfo(session_id, now, user_agent, viewport_size, fingerprint_hash, tags) ==
    [session_id |-> session_id, user_agent |-> user_agent,
     viewport_size |-> viewport_size,
     created_at |-> [datetime |-> now], last_accessed |-> [datetime |-> now],
     url_history |-> <<>>, login_status |-> "unknown",
     fingerprint_hash |-> fingerprint_hash,
     tags |-> IF tags = None THEN <<>> ELSE Elem(tags),
     metadata |-> {}]

\* The metadata dict save_browser_session prepares.
SessionMetadata(session_info) ==
    [user_agent |-> session_info.user_agent,
     viewport_size |-> list(session_info.viewport_size),
     created_at |-> isoformat(session_info.created_at),
     last_accessed |-> isoformat(session_info.last_accessed),
     url_history |-> session_info.url_history,
     login_status |-> session_info.login_status,
     fingerprint_hash |-> session_info.fingerprint_hash,
     tags |-> session_info.tags,
     extra_metadata |-> session_info.metadata]

\* session_data["metadata"] = metadata, left out.
WithoutMetadata(session_data, metadata) == session_data

\* session_data["metadata"] = metadata
WithMetadata(session_data, metadata) ==
    [cookies |-> session_data.cookies,
     local_storage |-> session_data.local_storage,
     session_storage |-> session_data.session_storage,
     timestamp |-> session_data.timestamp, version |-> session_data.version,
     metadata |-> metadata]

\* The SessionInfo get_session rebuilds from a record's metadata.
ReconstructSessionInfo(session_id, now, meta) ==
    [session_id |-> session_id, user_agent |-> meta.user_agent,
     viewport_size |-> tuple(meta.viewport_size),
     created_at |-> fromisoformat(meta.created_at),
     last_accessed |-> [datetime |-> now],
     url_history |-> meta.url_history, login_status |-> meta.login_status,
     fingerprint_hash |-> meta.fingerprint_hash, tags |-> meta.tags,
     metadata |-> meta.extra_metadata]

\* SessionManager.__init__ over the directory of storage st.
NewSessionManagerOver(m, generated) ==
    [m EXCEPT !.storage = _get_or_create_key(m.storage, generated),
              !.heap = <<>>,
              !.active_sessions = [i \in SessionIds |-> None],
              !.current_session = None]

SmOut(m, val, reached) == [st |-> m, raised |-> FALSE, val |-> val,
                           reached |-> reached]

create_session(m, session_id, user_agent, viewport_size, fingerprint_hash, tags) ==
    [m EXCEPT !.heap = Append(m.heap,
                              NewSessionInfo(session_id, m.now, user_agent,
                                             viewport_size, fingerprint_hash,
                                             tags)),
              !.active_sessions[session_id] = Some(Len(m.heap) + 1),
              !.current_session = Some(Len(m.heap) + 1)]

\* get_session past the lookup in active_sessions, without
\* `self.active_sessions[session_id] = session_info`.
get_session_unstored(m, session_id, session_data) ==
    IF session_data # None /\ "metadata" \in DOMAIN Elem(session_data)
    THEN SmOut([m EXCEPT !.heap =
                    Append(m.heap,
                           ReconstructSessionInfo(session_id, m.now,
                                                  Elem(session_data).metadata))],
               Some(Len(m.heap) + 1), TRUE)
    ELSE SmOut(m, None, TRUE)

\* get_session past the lookup in active_sessions; session_data: what
\* storage.load_session_data returned.
get_session_stored(m, session_id, session_data) ==
    IF session_data # None /\ "metadata" \in DOMAIN Elem(session_data)
    THEN SmOut([m EXCEPT !.heap =
                    Append(m.heap,
                           ReconstructSessionInfo(session_id, m.now,
                                                  Elem(session_data).metadata)),
                         !.active_sessions[session_id] = Some(Len(m.heap) + 1)],
               Some(Len(m.heap) + 1), TRUE)
    ELSE SmOut(m, None, TRUE)

\* val: the reference returned, or None; reached: whether the storage was read.
get_session(m, session_id) ==
    IF m.active_sessions[session_id] # None
    THEN SmOut(m, m.active_sessions[session_id], FALSE)
    ELSE get_session_stored(m, session_id,
                            load_session_data(m.storage, m.now, session_id).val)

\* save_browser_session after the re-read of the record it just saved;
\* write: whether json.dumps and the write of the file succeed.
save_browser_session_resave(m, ref, session_data, write) ==
    IF session_data = None THEN SmOut(m, TRUE, TRUE)
    ELSE IF write = "raise" THEN SmOut(m, FALSE, TRUE)
    ELSE SmOut([m EXCEPT !.storage.files[m.heap[ref].session_id] =
                    Some(FernetEncrypt(m.storage._encryption_key,
                                       WithMetadata(Elem(session_data),
                                                    SessionMetadata(m.heap[ref]))))],
               TRUE, TRUE)

\* save_browser_session after storage.save_session_data returned `saved`.
save_browser_session_saved(m, ref, saved, write) ==
    IF ~saved.val THEN SmOut([m EXCEPT !.storage = saved.st], FALSE, TRUE)
    ELSE save_browser_session_resave(
             [m EXCEPT !.storage = saved.st], ref,
             load_session_data(saved.st, m.now, m.heap[ref].session_id).val,
             write)

\* save_browser_session from the update of the session's history on.
save_browser_session_update(m, ref, p, write) ==
    save_browser_session_saved(
        m, ref,
        save_session_data(m.storage, m.now, m.heap[ref].session_id, p.cookies,
                          p.local_storage, p.session_storage),
        write)

\* fetch: whether page.cookies() and the two page.evaluate() calls before
\* the history update succeed.
\* page: browser_manager.page, None or its url; ref: the SessionInfo passed
\* in; p: what the page gives; val: the bool returned; reached: whether the
\* history update was reached.
save_browser_session(m, page, ref, p, fetch, write) ==
    IF page = None THEN SmOut(m, FALSE, FALSE)
    ELSE IF fetch = "raise" THEN SmOut(m, FALSE, FALSE)
    ELSE save_browser_session_update(
             [m EXCEPT !.heap[ref].last_accessed = [datetime |-> m.now],
                       !.heap[ref].url_history =
                           TrimHistory(Append(@, Elem(page)))],
             ref, p, write)

\* restore_browser_session after get_session returned r.
restore_browser_session_active(r, now) ==
    IF r.val = None THEN SmOut(r.st, TRUE, TRUE)
    ELSE SmOut([r.st EXCEPT !.heap[Elem(r.val)].last_accessed =
                                [datetime |-> now],
                            !.current_session = r.val],
               TRUE, TRUE)

\* page: browser_manager.page; drive: whether page.add_cookies and the
\* page.evaluate calls succeed.
restore_browser_session(m, page, session_id, drive) ==
    IF load_session_data(m.storage, m.now, session_id).val = None
    THEN SmOut(m, FALSE, FALSE)
    ELSE IF page = None THEN SmOut(m, FALSE, FALSE)
    ELSE IF drive = "raise" THEN SmOut(m, FALSE, FALSE)
    ELSE restore_browser_session_active(get_session(m, session_id), m.now)

\* update_login_status after get_session returned r.
update_login_status_found(r, now, status, metadata) ==
    IF r.val = None THEN SmOut(r.st, FALSE, r.reached)
    ELSE SmOut([r.st EXCEPT !.heap[Elem(r.val)].login_status = status,
                            !.heap[Elem(r.val)].last_accessed =
                                [datetime |-> now],
                            !.heap[Elem(r.val)].metadata =
                                IF metadata = None \/ Elem(metadata) = {}
                                THEN @ ELSE DictUpdate(@, Elem(metadata))],
               TRUE, r.reached)

update_login_status(m, session_id, status, metadata) ==
    update_login_status_found(get_session(m, session_id), m.now, status,
                              metadata)

\* What create_session is called with.
UserAgents == {"Mozilla/5.0 Test"}
ViewportSizes == {[kind |-> "tuple", items |-> <<1920, 1080>>]}
FingerprintHashes == {"test_fingerprint"}
TagLists == {None}
LoginStatuses == {"logged_in"}
StatusMetadata == {Some({<<"user", "test">>})}
\* What the page gives to save_browser_session: cookies and two dicts.
PagePayloads == {p \in Payloads : p.local_storage # None}
\* browser_manager.page.url
PageUrls == {"u3"}

\* A record an earlier run's save_browser_session left, with history h.
PriorRecord(h) ==
    WithMetadata(
        [cookies |-> "[sid=1]", local_storage |-> "{}",
         session_storage |-> "{}", timestamp |-> 0, version |-> "1.0"],
        SessionMetadata(
            [NewSessionInfo("s1", 0, "Mozilla/5.0 Test",
                            [kind |-> "tuple", items |-> <<1920, 1080>>],
                            "test_fingerprint", None)
             EXCEPT !.url_history = h]))
PriorHistories == {Visits(HistoryLimit - 1), Visits(HistoryLimit)}

NoSmRet == [val |-> None, reached |-> FALSE, data |-> None]
NoneSaved == [i \in SessionIds |-> None]

\* The SessionManager over a directory that holds the key and no session.
FreshSessionManager ==
    [storage |-> FreshSessionStorage(1), heap |-> <<>>,
     active_sessions |-> [i \in SessionIds |-> None],
     current_session |-> None, now |-> 0, ticks |-> 0, saves |-> 0]

SmInit ==
    /\ sm \in {FreshSessionManager} \cup
              {[FreshSessionManager EXCEPT !.storage.files["s1"] =
                    Some(FernetEncrypt(1, PriorRecord(h)))] :
               h \in PriorHistories}
    /\ smSaved = NoneSaved
    /\ smOp = "init"
    /\ smArg = <<>>
    /\ smRet = NoSmRet

SmReturn(op, arg, r, data) ==
    /\ sm' = r.st
    /\ smOp' = op
    /\ smArg' = arg
    /\ smRet' = [val |-> r.val, reached |-> r.reached, data |-> data]

\* A later run constructs SessionManager over the same directory.
NewSessionManager ==
    /\ UNCHANGED smFrame
    /\ smOp # "init"
    /\ UNCHANGED smSaved
    /\ \E k \in Keys :
           SmReturn("init", <<>>, SmOut(NewSessionManagerOver(sm, k), None, FALSE),
                    None)

\* uuid4 gives an id no session has.
CreateSession ==
    /\ UNCHANGED smFrame
    /\ UNCHANGED smSaved
    /\ \E id \in SessionIds, ua \in UserAgents, vs \in ViewportSizes,
          fp \in FingerprintHashes, tags \in TagLists :
           /\ sm.storage.files[id] = None
           /\ sm.active_sessions[id] = None
           /\ SmReturn("create_session", [session_id |-> id],
                       SmOut(create_session(sm, id, ua, vs, fp, tags),
                             Some(Len(sm.heap) + 1), FALSE),
                       None)

GetSession ==
    /\ UNCHANGED smFrame
    /\ UNCHANGED smSaved
    /\ \E id \in SessionIds :
           SmReturn("get_session", [session_id |-> id], get_session(sm, id),
                    None)

\* What the store was last told to save under an id, and the SessionInfo
\* of the save_browser_session that returned True.
Saved(p, now, info) ==
    Some([cookies |-> p.cookies, local_storage |-> p.local_storage,
          session_storage |-> p.session_storage, at |-> now, info |-> info])

SaveBrowserSessionDone(page, ref, p, r) ==
    /\ SmReturn("save_browser_session",
                [session_id |-> sm.heap[ref].session_id, ref |-> ref,
                 before |-> sm.heap[ref].url_history, page |-> page],
                [r EXCEPT !.st.saves = IF r.reached THEN @ + 1 ELSE @], None)
    /\ smSaved' =
           IF r.reached /\ ValidKey(sm.storage._encryption_key)
           THEN [smSaved EXCEPT ![sm.heap[ref].session_id] =
                     Saved(p, sm.now,
                           IF r.val THEN Some(r.st.heap[ref]) ELSE None)]
           ELSE smSaved

\* The caller passes a SessionInfo it got from create_session or get_session.
SaveBrowserSession ==
    /\ UNCHANGED smFrame
    /\ sm.saves < MaxSaves
    /\ \E page \in Opt(PageUrls), ref \in 1..Len(sm.heap), p \in PagePayloads,
          fetch \in DriverOutcomes, write \in DriverOutcomes :
           SaveBrowserSessionDone(page, ref, p,
                                  save_browser_session(sm, page, ref, p,
                                                       fetch, write))

RestoreBrowserSession ==
    /\ UNCHANGED smFrame
    /\ UNCHANGED smSaved
    /\ \E page \in Opt(PageUrls), id \in SessionIds, drive \in DriverOutcomes :
           SmReturn("restore_browser_session",
                    [session_id |-> id],
                    restore_browser_session(sm, page, id, drive), None)

UpdateLoginStatus ==
    /\ UNCHANGED smFrame
    /\ UNCHANGED smSaved
    /\ \E id \in SessionIds, status \in LoginStatuses,
          metadata \in StatusMetadata :
           SmReturn("update_login_status",
                    [session_id |-> id],
                    update_login_status(sm, id, status, metadata), None)

StorageSaveDone(id, p, r) ==
    /\ SmReturn("save_session_data", [session_id |-> id],
                SmOut([sm EXCEPT !.storage = r.st, !.saves = @ + 1],
                      Some(r.val), FALSE),
                None)
    /\ smSaved' = IF r.val THEN [smSaved EXCEPT ![id] = Saved(p, sm.now, None)]
                  ELSE smSaved

\* manager.storage.save_session_data, called from outside the manager.
StorageSave ==
    /\ UNCHANGED smFrame
    /\ sm.saves < MaxSaves
    /\ \E id \in SessionIds, p \in Payloads \ PagePayloads :
           StorageSaveDone(id, p,
                           save_session_data(sm.storage, sm.now, id, p.cookies,
                                             p.local_storage,
                                             p.session_storage))

\* manager.storage.load_session_data, called from outside the manager.
StorageLoad ==
    /\ UNCHANGED smFrame
    /\ UNCHANGED smSaved
    /\ \E id \in SessionIds :
           SmReturn("load_session_data", [session_id |-> id],
                    SmOut(sm, None, FALSE),
                    load_session_data(sm.storage, sm.now, id).val)

\* Time passes: a second more than the 168 hours a record lasts.
SmTickSteps == {MaxAgeHours * SecondsPerHour + 1}
SmTick ==
    /\ UNCHANGED smFrame
    /\ UNCHANGED smSaved
    /\ sm.ticks < MaxSmTicks
    /\ \E d \in SmTickSteps :
           SmReturn("tick", <<>>,
                    SmOut([sm EXCEPT !.now = @ + d, !.ticks = @ + 1], None,
                          FALSE),
                    None)

\* The session manager left alone, in a specification of another component.
SmIdle ==
    /\ sm = FreshSessionManager
    /\ smSaved = NoneSaved
    /\ smOp = "init"
    /\ smArg = <<>>
    /\ smRet = NoSmRet

SmNext ==
    \/ NewSessionManager
    \/ CreateSession
    \/ GetSession
    \/ SaveBrowserSession
    \/ RestoreBrowserSession
    \/ UpdateLoginStatus
    \/ StorageSave
    \/ StorageLoad
    \/ SmTick

(***************************************************************************)
(* Specifications, one per component; the other components stay as         *)
(* constructed.                                                            *)
(***************************************************************************)
\* The credential stores a login call can start from.
LoginCredInit ==
    /\ cm \in [master_password : {None, Some(1)}, _cipher : {None},
               credentials_file :
                   {None,
                    Some(FernetEncrypt(_generate_key(1, 1), CredJson("b@x", "pw2")))},
               salt_file : {Some(1)}]
    /\ environ \in {e \in EnvValues : (e.YOUTUBE_EMAIL = None) = (e.YOUTUBE_PASSWORD = None)}
    /\ cmOp = "init"
    /\ cmArgs = NoArgs
    /\ cmRet = CmRet(FALSE, FALSE, None, <<>>)

\* The components added after the first three, left alone.
LateIdle == AutoIdle /\ SmIdle
MoreIdle == RotIdle /\ BrowserIdle /\ RunIdle /\ LateIdle

InitCred == CredInit /\ SessIdle /\ LoginIdle /\ MoreIdle
SpecCred == InitCred /\ [][CredNext]_vars

InitSess == CredIdle /\ SessInit /\ LoginIdle /\ MoreIdle
SpecSess == InitSess /\ [][SessNext]_vars

Init == LoginCredInit /\ SessIdle /\ LoginInit /\ MoreIdle
Spec == Init /\ [][LoginNext]_vars

InitRot == CredIdle /\ SessIdle /\ LoginIdle /\ RotInit /\ BrowserIdle /\ RunIdle /\ LateIdle
SpecRot == InitRot /\ [][RotNext]_vars

InitBrowser == CredIdle /\ SessIdle /\ LoginIdle /\ RotIdle /\ BrowserInit /\ RunIdle /\ LateIdle
SpecBrowser == InitBrowser /\ [][BrowserNext]_vars

InitRun == CredIdle /\ SessIdle /\ LoginIdle /\ RotIdle /\ BrowserIdle /\ RunInit /\ LateIdle
SpecRun == InitRun /\ [][RunNext]_vars

EarlyIdle == CredIdle /\ SessIdle /\ LoginIdle /\ RotIdle /\ BrowserIdle /\ RunIdle
InitAuto == EarlyIdle /\ AutoInit /\ SmIdle
SpecAuto == InitAuto /\ [][AutoNext]_vars
InitSm == EarlyIdle /\ AutoIdle /\ SmInit
SpecSm == InitSm /\ [][SmNext]_vars


(***************************************************************************)
(* Properties of one login call (specification Spec).                      *)
(***************************************************************************)
Positions == 1..Len(trace)
Has(ev) == \E i \in Positions : trace[i].ev = ev
HasEv(ev, a) == \E i \in Positions : trace[i].ev = ev /\ trace[i].a = a
\* The stages entered so far, in the order they were entered.
EnteredStages ==
    LET entries == SelectSeq(trace, LAMBDA e : e.ev = "enter")
    IN [i \in 1..Len(entries) |-> entries[i].a]
IsPrefix(p, q) == Len(p) <= Len(q) /\ \A i \in 1..Len(p) : p[i] = q[i]
StageOrder == <<"SESSION_RESTORE", "AUTOMATIC_LOGIN", "MANUAL_ASSISTED">>
StageRank(st) == CHOOSE k \in 1..3 : StageOrder[k] = st
\* The result the first _is_logged_in call of the login call gave.
FirstLoggedInCheck ==
    LET checks == SelectSeq(trace, LAMBDA e : e.ev = "is_logged_in")
    IN IF checks = <<>> THEN "none" ELSE checks[1].a
LoginFormLists ==
    {"email_selectors", "next_selectors", "password_selectors", "login_selectors",
     "captcha_indicators", "error_indicators", "success_indicators"}

\* C1: under the hybrid policy the stages are entered in the order session
\* check, automatic login, manual-assisted login, each at most once, and a
\* stage is entered only after every earlier stage has returned a result other
\* than SUCCESS.
C1_HybridStageOrder ==
    strategy = "HYBRID_APPROACH" =>
        /\ IsPrefix(EnteredStages, StageOrder)
        /\ \A i \in Positions :
             trace[i].ev = "enter" =>
                 \A k \in 1..(StageRank(trace[i].a) - 1) :
                     \E j \in 1..(i - 1) :
                         /\ trace[j].ev = "return"
                         /\ trace[j].a = StageOrder[k]
                         /\ trace[j].b # "SUCCESS"

\* A hybrid login that went through all three stages.
C1_Witness ==
    /\ pc = "done"
    /\ strategy = "HYBRID_APPROACH"
    /\ EnteredStages = StageOrder

\* C2: under the hybrid policy, once a stage has returned SUCCESS no stage is
\* entered and no pause is taken, and login returns SUCCESS; when the
\* manual-assisted stage returns anything else, login returns FAILED.
C2_HybridTerminal ==
    strategy = "HYBRID_APPROACH" =>
        /\ \A i \in Positions :
             (trace[i].ev = "return" /\ trace[i].b = "SUCCESS") =>
                 /\ \A j \in (i + 1)..Len(trace) : trace[j].ev \notin {"enter", "pause"}
                 /\ pc = "done" => ret = "SUCCESS"
        /\ \A i \in Positions :
             (/\ trace[i].ev = "return"
              /\ trace[i].a = "MANUAL_ASSISTED"
              /\ trace[i].b # "SUCCESS"
              /\ pc = "done") => ret = "FAILED"

\* A hybrid login that ended at the automatic login's SUCCESS.
C2_Witness ==
    /\ pc = "done"
    /\ strategy = "HYBRID_APPROACH"
    /\ ret = "SUCCESS"
    /\ EnteredStages = <<"SESSION_RESTORE", "AUTOMATIC_LOGIN">>

\* C3: once a captcha has been detected during the automatic login, no
\* further stage is entered and login returns CAPTCHA_REQUIRED, under the
\* automatic and the hybrid policy alike.
C3_CaptchaTerminal ==
    \A i \in Positions :
        trace[i].ev = "captcha_detected" =>
            /\ \A j \in (i + 1)..Len(trace) : trace[j].ev # "enter"
            /\ pc = "done" => ret = "CAPTCHA_REQUIRED"

\* C4: when the first logged-in check of the session check finds the
\* indicator, login returns SUCCESS and that call neither calls
\* restore_session, nor queries the credential store, nor probes a login-form
\* field, nor opens the manual page.
C4_SessionCheckAlone ==
    (/\ strategy \in {"SESSION_RESTORE", "HYBRID_APPROACH"}
     /\ FirstLoggedInCheck = "true") =>
        /\ ~Has("restore_session")
        /\ ~Has("get_credentials")
        /\ ~Has("manual")
        /\ manual_page = "none"
        /\ \A l \in LoginFormLists : ~HasEv("find", l)
        /\ EnteredStages = <<"SESSION_RESTORE">>
        /\ pc = "done" => ret = "SUCCESS"

\* A hybrid login that returned at the session check's first look.
C4_Witness ==
    /\ pc = "done"
    /\ strategy = "HYBRID_APPROACH"
    /\ FirstLoggedInCheck = "true"
    /\ ret = "SUCCESS"

\* The case of C5: get_credentials gave no credentials, no session was saved
\* and no logged-in check found the indicator.
NothingAvailable ==
    /\ ~HasEv("get_credentials", "creds")
    /\ last_session_file = "absent"
    /\ ~HasEv("is_logged_in", "true")
NoNavigationNoProbe == ~Has("navigate") /\ ~Has("find")

\* C5 as claimed: in that case every login call returns a result other than
\* SUCCESS without raising, and under the automatic policy it returns
\* MANUAL_INTERVENTION without navigating or probing.
C5_Original ==
    (pc = "done" /\ NothingAvailable) =>
        /\ ret \in LoginResults \ {"SUCCESS"}
        /\ strategy = "AUTOMATIC_LOGIN" =>
               (ret = "MANUAL_INTERVENTION" /\ NoNavigationNoProbe)

\* C5 (amended): in that case no login call stops short of returning, every
\* login call returns a result other than SUCCESS without raising, and under
\* the automatic policy, without navigating or probing, it returns
\* MANUAL_INTERVENTION when get_credentials returned None and FAILED when
\* get_credentials raised.
C5_NoCredentialsOutcome ==
    /\ (pc # "done" /\ NothingAvailable) => ENABLED LoginNext
    /\ (pc = "done" /\ NothingAvailable) =>
           /\ ret \in LoginResults \ {"SUCCESS"}
           /\ strategy = "AUTOMATIC_LOGIN" =>
                  /\ NoNavigationNoProbe
                  /\ HasEv("get_credentials", "none") => ret = "MANUAL_INTERVENTION"
                  /\ HasEv("get_credentials", "raised") => ret = "FAILED"
                  /\ HasEv("get_credentials", "none") \/ HasEv("get_credentials", "raised")

\* An automatic login whose credential prompt raised.
C5_Witness ==
    /\ pc = "done"
    /\ NothingAvailable
    /\ strategy = "AUTOMATIC_LOGIN"
    /\ HasEv("get_credentials", "raised")


(***************************************************************************)
(* Properties of the credential manager (specification SpecCred).          *)
(***************************************************************************)
\* What the credentials file holds, as load_credentials returns it.
StoredCredentials(st) ==
    LET plain == Elem(st.credentials_file).plain
    IN [email |-> plain.youtube_email, password |-> plain.youtube_password]
\* The credentials file decrypts under the cipher the instance has derived.
StoreReadable(st) ==
    /\ st.credentials_file # None
    /\ st._cipher # None
    /\ Elem(st.credentials_file).valid
    /\ Elem(st.credentials_file).key = Elem(st._cipher)
    /\ Elem(st.credentials_file).plain.has_keys
SourceOrder == <<"store", "env", "prompt">>
EnvYields ==
    /\ environ.YOUTUBE_EMAIL \notin {None, Some("")}
    /\ environ.YOUTUBE_PASSWORD \notin {None, Some("")}

\* C6: load_credentials called right after store_credentials(email, password)
\* on an instance that has its master password returns exactly that email and
\* password.
C6_StoreLoadRoundTrip ==
    [][(/\ cmOp = "store_credentials"
        /\ cm.master_password # None
        /\ cmOp' = "load_credentials")
       => cmRet'.creds = Some([email |-> cmArgs.email, password |-> cmArgs.password])]_vars

\* C9: get_credentials consults the encrypted store, then the environment,
\* then the operator, and stops at the first that yields: what the store
\* yields is returned whatever the environment holds, the environment is used
\* only after the store yielded nothing, the operator is asked only after both
\* yielded nothing, and what is returned after asking is what is then read
\* back from the encrypted store.
C9_CredentialPriority ==
    cmOp = "get_credentials" =>
        LET c == cmRet.consulted
            n == Len(c)
        IN /\ n \in 1..3
           /\ \A i \in 1..n : c[i].src = SourceOrder[i]
           /\ \A i \in 1..(n - 1) : ~c[i].got
           /\ c[1].got =>
                  StoreReadable(cm) /\ cmRet.creds = Some(StoredCredentials(cm))
           /\ n = 2 =>
                  /\ ~StoreReadable(cm)
                  /\ c[2].got
                  /\ EnvYields
                  /\ cmRet.creds = Some([email |-> Elem(environ.YOUTUBE_EMAIL),
                                         password |-> Elem(environ.YOUTUBE_PASSWORD)])
           /\ n = 3 =>
                  /\ ~EnvYields
                  /\ ~c[3].got => cmRet.creds = None
                  /\ cmRet.creds # None =>
                         StoreReadable(cm) /\ cmRet.creds = Some(StoredCredentials(cm))

\* The store yielded although both environment variables are set.
C9_Witness ==
    /\ cmOp = "get_credentials"
    /\ EnvYields
    /\ cmRet.consulted = <<Src("store", TRUE)>>
    /\ cmRet.creds = Some([email |-> "b@x", password |-> "pw2"])

\* C10: load_credentials never raises and leaves the credentials file as it
\* was; it returns None when the file is missing, is no valid ciphertext, or
\* was encrypted under a key other than the one the instance derives.
C10_LoadNeverRaises ==
    [][cmOp' = "load_credentials" =>
        /\ ~cmRet'.raised
        /\ cm'.credentials_file = cm.credentials_file
        /\ cm.credentials_file = None => cmRet'.creds = None
        /\ (cm.credentials_file # None /\ ~Elem(cm.credentials_file).valid)
               => cmRet'.creds = None
        /\ (/\ cm.credentials_file # None
            /\ cm'._cipher # None
            /\ Elem(cm.credentials_file).key # Elem(cm'._cipher))
               => cmRet'.creds = None]_vars

\* A load of a file that was encrypted under another master password.
C10_Witness ==
    /\ cmOp = "load_credentials"
    /\ cm.credentials_file # None
    /\ Elem(cm.credentials_file).valid
    /\ cm._cipher # None
    /\ Elem(cm.credentials_file).key[1] # Elem(cm._cipher)[1]
    /\ Elem(cm.credentials_file).key[2] = Elem(cm._cipher)[2]
    /\ cmRet.creds = None
    /\ ~cmRet.raised

(***************************************************************************)
(* Properties of the session store (specification SpecSess).               *)
(***************************************************************************)
\* The record the file of the last call holds.
FileRecord == Elem(ss.files[ssArg]).plain
\* The file of the last call was encrypted under the store's key.
FileUnderStoreKey ==
    /\ ss.files[ssArg] # None
    /\ Elem(ss.files[ssArg]).valid
    /\ Elem(ss.files[ssArg]).key = ss._encryption_key

\* C7: load_session_data of a record that decrypts under the store's key
\* returns None when the record's timestamp is more than 168 hours
\* (604800 seconds) old, and returns the record when it is at most 168 hours
\* old.
C7_SessionExpiry ==
    (ssOp = "load_session_data" /\ FileUnderStoreKey) =>
        /\ clock - FileRecord.timestamp > 604800 => ssRet.data = None
        /\ clock - FileRecord.timestamp <= 604800 => ssRet.data = Some(FileRecord)

\* A record of exactly 168 hours is returned.
C7_Witness ==
    /\ ssOp = "load_session_data"
    /\ FileUnderStoreKey
    /\ clock - FileRecord.timestamp = 604800
    /\ ssRet.data = Some(FileRecord)

\* A record older than 168 hours is refused.
C7_WitnessExpired ==
    /\ ssOp = "load_session_data"
    /\ FileUnderStoreKey
    /\ clock - FileRecord.timestamp > 604800
    /\ ssRet.data = None

\* C8: load_session_data of a record that was encrypted under a key other
\* than the store's returns None, does not raise, and leaves the session
\* files as they were.
C8_WrongKeyLoad ==
    [][(/\ ssOp' = "load_session_data"
        /\ ss.files[ssArg'] # None
        /\ Elem(ss.files[ssArg']).valid
        /\ Elem(ss.files[ssArg']).key # ss._encryption_key)
       => /\ ssRet'.data = None
          /\ ~ssRet'.raised
          /\ ss'.files = ss.files]_vars

\* A load at a valid key of a record another valid key encrypted.
C8_Witness ==
    /\ ssOp = "load_session_data"
    /\ ss.files[ssArg] # None
    /\ Elem(ss.files[ssArg]).valid
    /\ ss._encryption_key \in Keys
    /\ Elem(ss.files[ssArg]).key # ss._encryption_key
    /\ ssRet.data = None
    /\ ~ssRet.raised


(***************************************************************************)
(* Properties of the stealth objects (specification SpecRot).              *)
(***************************************************************************)
NumContexts == Len(InitialBrowserContexts)
InTable(x, table) == \E i \in 1..Len(table) : table[i] = x

\* C16: the k-th get_next_context call since construction returns
\* browser_contexts[(k-1) mod N], current_context_index stays in 0..N-1 and
\* equals k mod N after k calls, so that it wraps to the first entry after
\* the last and N further calls bring it back to the same value.
C16_RotationOrder ==
    /\ rot.current_context_index \in 0..(NumContexts - 1)
    /\ rot.current_context_index = rotCalls % NumContexts
    /\ rotOp = "get_next_context" =>
           rotRet = InitialBrowserContexts[((rotCalls - 1) % NumContexts) + 1]

\* The call after the last entry was returned gives the first entry again.
C16_Witness ==
    /\ rotOp = "get_next_context"
    /\ rotCalls = NumContexts + 1
    /\ rotRet = InitialBrowserContexts[1]
    /\ rot.current_context_index = 1

\* C17: select_random_fingerprint returns an entry of brazilian_fingerprints
\* and leaves current_fingerprint, None at construction, equal to the entry
\* it returned; get_random_context and get_next_context return entries of
\* browser_contexts; neither table is ever changed.
C17_SelectionsFromTable ==
    /\ eng.brazilian_fingerprints = _load_brazilian_fingerprints
    /\ rot.browser_contexts = InitialBrowserContexts
    /\ rotOp = "init" => eng.current_fingerprint = None
    /\ rotOp = "select_random_fingerprint" =>
           /\ InTable(rotRet, _load_brazilian_fingerprints)
           /\ eng.current_fingerprint = Some(rotRet)
    /\ rotOp \in {"get_random_context", "get_next_context"} =>
           InTable(rotRet, InitialBrowserContexts)

\* A fingerprint was selected and recorded, replacing an earlier selection.
C17_Witness ==
    /\ rotOp = "select_random_fingerprint"
    /\ rotRet = _load_brazilian_fingerprints[3]
    /\ eng.current_fingerprint = Some(_load_brazilian_fingerprints[3])
    /\ rotCalls > 0


(***************************************************************************)
(* Selector probing                                                        *)
(***************************************************************************)
\* The candidates of probe p that page.find would resolve.
Resolving(p) == {i \in 1..Len(p.answers) : p.answers[i] = "elem"}

\* C18: in every probe of the login handler the candidates are asked in list
\* order, each at most once; a candidate that is absent or whose lookup raises
\* is skipped; the first candidate that resolves is the one used and nothing
\* is asked after it; when none resolves every candidate has been asked once
\* and the probe yields "not found" (0), whatever the lookups raised.
C18_ProbeFallsThrough ==
    \A n \in 1..Len(probes) :
        LET p == probes[n]
        IN /\ p.tried = [i \in 1..Len(p.tried) |-> i]
           /\ Len(p.tried) <= Len(p.answers)
           /\ IF Resolving(p) = {}
              THEN p.found = 0 /\ Len(p.tried) = Len(p.answers)
              ELSE /\ p.found \in Resolving(p)
                   /\ \A i \in Resolving(p) : p.found <= i
                   /\ Len(p.tried) = p.found

\* A probe whose first candidate raised and whose second was absent found its
\* element further down the list, and another probe found nothing although a
\* lookup raised.
C18_Witness ==
    \E n \in 1..Len(probes) :
        LET p == probes[n]
        IN /\ Len(p.answers) >= 3
           /\ p.answers[1] = "none" /\ p.answers[2] = "raise"
           /\ p.found >= 3

(***************************************************************************)
(* BrowserManager                                                          *)
(***************************************************************************)
\* C11: no BrowserManager operation propagates an exception to its caller;
\* every failure becomes a result value.
C11_NoOperationRaises == ~bmRet.raised

\* C14: whenever close_browser(save_session=True) is called with an open
\* browser, browser.close() is attempted.
C14_CloseAttempted ==
    (bmOp = "close_browser" /\ bmArg /\ bmRet.browserBefore = "open")
        => bmRet.closeAttempted

\* C19: restore_session, called more than 24 hours of real time after
\* close_browser wrote the record, returns False and adds no cookies.
C19_StaleRecordAbsent ==
    (/\ bmOp = "restore_session"
     /\ disk.last_session # None
     /\ wall - Elem(disk.last_session).writtenAt > SessionHorizon)
        => (bmRet.val = FALSE /\ ~bmRet.cookiesAdded)

(***************************************************************************)
(* The programs                                                            *)
(***************************************************************************)
\* The last n events of the run.
LastEvents(n) ==
    IF Len(runOut.events) < n THEN <<>>
    ELSE SubSeq(runOut.events, Len(runOut.events) - n + 1, Len(runOut.events))

\* C12: YouTubeAutomationApp.run, execute_full_automation and main.py's
\* main() end with their teardown on every path, whether a stage failed,
\* raised or was interrupted or the run succeeded: run with cleanup and its
\* close_browser, execute_full_automation with cleanup, and main() with its
\* finally clause, which stops the browser whenever one was started.
C12_TeardownLast ==
    /\ (runIn.prog = "main_v2" /\ runIn.mode = "run")
           => LastEvents(2) = <<"cleanup", "close_browser">>
    /\ runIn.prog = "execute_full_automation"
           => LastEvents(3) = <<"cleanup">> \o automator_cleanup
    /\ runIn.prog = "main"
           => /\ \E i \in 1..Len(runOut.events) : runOut.events[i] = "finally"
              /\ runIn.start = "ok" => LastEvents(2) = <<"finally", "browser.stop">>

\* A run of main_v2.py that was interrupted after its browser was launched
\* ended with cleanup and close_browser.
C12_Witness ==
    /\ runIn.prog = "main_v2"
    /\ runIn.mode = "run" /\ runIn.init = "ok" /\ runIn.interrupted
    /\ LastEvents(2) = <<"cleanup", "close_browser">>

\* C13: no exception leaves main() of main_new.py or of main_v2.py.
C13_NoUnhandledFault ==
    runIn.prog \in {"main_new", "main_v2"} => runOut.exc = ""

\* C15: in main_new.py and main_v2.py a run whose result is False ends the
\* process with status 1 and a run whose result is True ends it with
\* status 0.
C15_ExitCode ==
    runIn.prog \in {"main_new", "main_v2"}
        => /\ runOut.result = "False" => runOut.exit = Some(1)
           /\ runOut.result = "True" => runOut.exit = Some(0)

\* A run of main_v2.py whose login ended at a captcha left status 1.
C15_Witness ==
    /\ runIn.prog = "main_v2"
    /\ runIn.mode = "run" /\ runIn.init = "ok" /\ ~runIn.interrupted
    /\ runIn.login = "CAPTCHA_REQUIRED"
    /\ runOut.result = "False"
    /\ runOut.exit = Some(1)

\* Text t occurs in line s.
Contains(s, t) ==
    \E i \in 1..(Len(s) - Len(t) + 1) : SubSeq(s, i, i + Len(t) - 1) = t

\* C20: no line printed by main.py or check_credentials.py contains the
\* configured e-mail address or the configured password.
C20_NoCredentialInOutput ==
    runIn.prog \in {"main", "check_credentials"}
        => \A i \in 1..Len(runOut.console) :
               /\ runIn.email # "" => ~Contains(runOut.console[i], runIn.email)
               /\ runIn.password # ""
                      => ~Contains(runOut.console[i], runIn.password)

(***************************************************************************)
(* Manual-assisted login                                                   *)
(***************************************************************************)
\* The position at which MANUAL_ASSISTED was entered (0: it was not).
ManualEntry ==
    IF \E i \in Positions : trace[i] = Ev("enter", "MANUAL_ASSISTED", "")
    THEN CHOOSE i \in Positions : trace[i] = Ev("enter", "MANUAL_ASSISTED", "")
    ELSE 0

\* The steps of the manual-assisted stage so far, without its selector probes.
ManualSteps ==
    IF ManualEntry = 0 THEN <<>>
    ELSE SelectSeq(SubSeq(trace, ManualEntry + 1, Len(trace)),
                   LAMBDA e : e.ev \in {"manual", "navigate", "is_logged_in",
                                         "return"})

ManualOrder == <<"new_page", "goto", "input", "close">>

\* The steps ms of a manual-assisted stage are in the stage's order and its
\* result is that of the indicator check.
ManualStepsInOrder(ms) ==
    \A i \in 1..Len(ms) :
        /\ ms[i].ev = "manual" => (i <= 4 /\ ms[i].a = ManualOrder[i])
        /\ (ms[i].ev = "manual" /\ ms[i].b = "raise" /\ i < Len(ms))
               => ms[i + 1] = Ev("return", "MANUAL_ASSISTED", "FAILED")
        /\ ms[i].ev = "navigate"
               => (i = 5 /\ ms[4] = Ev("manual", "close", "ok"))
        /\ ms[i].ev = "is_logged_in" => (i = 6 /\ ms[5].ev = "navigate")
        /\ (ms[i].ev = "return" /\ ms[i].a = "MANUAL_ASSISTED")
               => /\ ms[i].b \in {"SUCCESS", "FAILED"}
                  /\ ms[i].b = "SUCCESS"
                         <=> (i = 7 /\ ms[6] = Ev("is_logged_in", "true", ""))

\* No selector is probed after position entry before a navigation.
NoProbeBeforeNavigation(entry) ==
    \A j \in (entry + 1)..Len(trace) :
        trace[j].ev = "find"
            => \E k \in (entry + 1)..(j - 1) : trace[k].ev = "navigate"

\* C22: the manual-assisted stage opens the secondary page, sends it to the
\* login URL, waits for the operator's answer, closes the page, navigates the
\* primary page and then checks the logged-in indicator, in that order; no
\* selector is probed before the navigation that follows the answer; and the
\* stage returns SUCCESS exactly when that check finds the indicator, FAILED
\* otherwise.
C22_ManualOrder ==
    stage = "MANUAL_ASSISTED"
        => ManualStepsInOrder(ManualSteps) /\ NoProbeBeforeNavigation(ManualEntry)

\* A manual-assisted stage ran all its steps and returned SUCCESS.
C22_Witness ==
    /\ Len(ManualSteps) >= 7
    /\ ManualSteps[3] = Ev("manual", "input", "ok")
    /\ ManualSteps[7] = Ev("return", "MANUAL_ASSISTED", "SUCCESS")

\* C27: when the manual-assisted stage returns, the secondary page it opened
\* has been closed.
C27_ManualPageClosed ==
    (stage = "MANUAL_ASSISTED" /\ pc = "stage_return") => manual_page # "open"

(***************************************************************************)
(* Automatic login: submitting the e-mail; the outcomes of login           *)
(***************************************************************************)
\* C23: the password field is looked for only after the e-mail was
\* submitted, by a click on a next control or by Enter in the field.
C23_SubmitBeforePassword ==
    \A j \in Positions :
        trace[j] = Ev("find", "password_selectors", "")
            => \E k \in 1..(j - 1) :
                   \/ trace[k] = Ev("click", "next_button", "")
                   \/ trace[k].ev = "press"

\* C25: login returns SUCCESS, FAILED, CAPTCHA_REQUIRED or
\* MANUAL_INTERVENTION, never REQUIRES_2FA or ACCOUNT_LOCKED, and under the
\* hybrid policy only SUCCESS or FAILED.
C25_ReturnedOutcomes ==
    pc = "done"
        => /\ ret \in {"SUCCESS", "FAILED", "CAPTCHA_REQUIRED", "MANUAL_INTERVENTION"}
           /\ strategy = "HYBRID_APPROACH" => ret \in {"SUCCESS", "FAILED"}

\* A hybrid login whose automatic stage met a captcha returned FAILED.
C25_Witness ==
    /\ pc = "done"
    /\ strategy = "HYBRID_APPROACH"
    /\ Has("captcha_detected")
    /\ ret = "FAILED"

\* Each of the four outcomes is returned by some login call.
C25_ReturnsCaptcha == pc = "done" /\ ret = "CAPTCHA_REQUIRED"
C25_ReturnsManualIntervention == pc = "done" /\ ret = "MANUAL_INTERVENTION"
C25_ReturnsSuccess == pc = "done" /\ ret = "SUCCESS"

C26_CleanedAfterCleanup ==
    (auOp = "cleanup" \/ (auRet.events # <<>> /\ auRet.events[Len(auRet.events)] = "cleanup"))
        => (~au.is_running /\ au.current_step = "cleaned")

(***************************************************************************)
(* Session files at rest                                                   *)
(***************************************************************************)
\* The content of a file is a Fernet token.
IsFernetToken(content) == "valid" \in DOMAIN content /\ content.valid

\* C21: the session file that close_browser writes holds only ciphertext,
\* never the cookies in plaintext.
C21_SessionFileEncrypted ==
    disk.last_session # None => IsFernetToken(Elem(disk.last_session))

(***************************************************************************)
(* Properties of the session manager (specification SpecSm).               *)
(***************************************************************************)
\* C29: current_session is None or the very SessionInfo that active_sessions
\* holds under its own session_id, and every key of active_sessions is the
\* session_id of its value.
C29_ActiveSessionsConsistent ==
    /\ sm.current_session # None =>
           sm.active_sessions[sm.heap[Elem(sm.current_session)].session_id]
               = sm.current_session
    /\ \A k \in SessionIds :
           sm.active_sessions[k] # None =>
               sm.heap[Elem(sm.active_sessions[k])].session_id = k

\* restore_browser_session made a session it rebuilt from the store the
\* current one.
C29_Witness ==
    /\ smOp = "restore_browser_session"
    /\ smRet.val = TRUE
    /\ smRet.reached
    /\ sm.current_session # None
    /\ \E k \in SessionIds :
           /\ sm.active_sessions[k] # None
           /\ sm.active_sessions[k] # sm.current_session

\* The session of the last save_browser_session call, and its history.
SavedSession == sm.heap[smArg.ref]
\* The last n entries of h, or all of h when it is shorter.
LastEntries(h, n) == IF Len(h) > n THEN SubSeq(h, Len(h) - n + 1, Len(h)) ELSE h

\* C30: after a save_browser_session call that reaches the history update,
\* the session's url_history holds at most 50 URLs, they are the last ones
\* of the earlier history followed by the page URL, in that order, and the
\* last entry is the page URL of that save.
C30_HistoryBounded ==
    (smOp = "save_browser_session" /\ smRet.reached) =>
        /\ Len(SavedSession.url_history) <= 50
        /\ SavedSession.url_history =
               LastEntries(smArg.before \o <<Elem(smArg.page)>>, 50)
        /\ SavedSession.url_history[Len(SavedSession.url_history)]
               = Elem(smArg.page)

\* A history of 50 URLs took one more and lost its oldest.
C30_Witness ==
    /\ smOp = "save_browser_session"
    /\ smRet.reached
    /\ Len(smArg.before) = 50
    /\ Len(SavedSession.url_history) = 50
    /\ SavedSession.url_history[1] = smArg.before[2]

\* A history of 49 URLs took one more and lost none.
C30_WitnessFull ==
    /\ smOp = "save_browser_session"
    /\ smRet.reached
    /\ Len(smArg.before) = 49
    /\ SavedSession.url_history = smArg.before \o <<Elem(smArg.page)>>

\* What the store was last told to save under the id of the last call.
LastSaved == Elem(smSaved[smArg.session_id])
\* The last call was within 168 hours of that save.
WithinHorizon ==
    /\ smSaved[smArg.session_id] # None
    /\ sm.now - LastSaved.at <= 604800
\* The SessionInfo the last call returned.
Returned == sm.heap[Elem(smRet.val)]

\* C28, as stated: load_session_data of a record saved within the horizon
\* returns the cookies, local_storage and session_storage that
\* save_session_data was called with.
C28_LoadsWhatWasPassed ==
    (smOp = "load_session_data" /\ WithinHorizon) =>
        /\ smRet.data # None
        /\ Elem(smRet.data).cookies = LastSaved.cookies
        /\ Some(Elem(smRet.data).local_storage) = LastSaved.local_storage
        /\ Some(Elem(smRet.data).session_storage) = LastSaved.session_storage

\* C28: load_session_data of a record saved within the horizon returns the
\* cookies that save_session_data was called with, and its local_storage
\* and session_storage, an absent one (None) read back as the empty dict;
\* and after save_browser_session returned True, get_session of that id
\* from the store, within the horizon, returns a SessionInfo that equals
\* the saved one in every field but last_accessed.
C28_RoundTrip ==
    /\ (smOp = "load_session_data" /\ WithinHorizon) =>
           /\ smRet.data # None
           /\ Elem(smRet.data).cookies = LastSaved.cookies
           /\ Elem(smRet.data).local_storage =
                  (IF LastSaved.local_storage = None THEN "{}"
                   ELSE Elem(LastSaved.local_storage))
           /\ Elem(smRet.data).session_storage =
                  (IF LastSaved.session_storage = None THEN "{}"
                   ELSE Elem(LastSaved.session_storage))
    /\ (smOp = "get_session" /\ smRet.reached /\ WithinHorizon
            /\ LastSaved.info # None) =>
           /\ smRet.val # None
           /\ [Returned EXCEPT !.last_accessed =
                                   Elem(LastSaved.info).last_accessed]
                  = Elem(LastSaved.info)

\* A save without storage snapshots was read back with empty ones.
C28_Witness ==
    /\ smOp = "load_session_data"
    /\ WithinHorizon
    /\ LastSaved.local_storage = None
    /\ smRet.data # None
    /\ Elem(smRet.data).local_storage = "{}"

\* A later manager rebuilt a session, with its history and login status,
\* from what save_browser_session left.
C28_WitnessRebuilt ==
    /\ smOp = "get_session"
    /\ smRet.reached
    /\ WithinHorizon
    /\ LastSaved.info # None
    /\ smRet.val # None
    /\ Returned.url_history # <<>>
    /\ Returned.login_status = "logged_in"

====
